---- MODULE Spec2Model ----
(***************************************************************************)
(* Model of liquidio: the transaction classifier, the liquidation          *)
(* detector with its position store, the latency checkpoints and the       *)
(* backtest harness that drives them.                                      *)
(*                                                                         *)
(* Conventions.                                                            *)
(*   Option<T>     a sequence of length <= 1: <<>> is None, <<x>> Some(x). *)
(*   HashMap<K,V>  a function whose DOMAIN is the set of keys present.     *)
(*   Address       a natural number; as_bytes() is its 20-byte big-endian  *)
(*                 form.  U256 amounts are naturals.                       *)
(*   Instant       a natural number of clock ticks (microseconds).         *)
(***************************************************************************)
EXTENDS Integers, Sequences, FiniteSets, TLC

VARIABLES
    positions,    \* LiquidationDetector.positions: HashMap<Address, UserPosition>
    clock,        \* the last value Instant::now() returned
    call,         \* the frame of the process_transaction call in flight
    run,          \* the frame of run_backtest / run_latency_stress_test
    scanned,      \* the Vec<LiquidationSignal> last returned by scan_all_positions
    exec,         \* the frame of execute_liquidation
    storeAtRecv,  \* history: the position store when the event was received
    committed,    \* history: per account, the lookup triple last inserted
    pure,         \* the argument and result of a pure function under test
    chan,         \* the mpsc channel of run_backtest: its buffer and its two ends
    producer,     \* the frame of the task running start_simulation
    hist,         \* history: the events sent and taken, the outcomes counted
    tasks,        \* the frames of the tasks that call the detector concurrently
    lock,         \* the RwLock around positions: the guards that are held
    refreshedAt   \* history: per account, the clock when its snapshot was inserted

vars ==
    <<positions, clock, call, run, scanned, exec, storeAtRecv, committed, pure,
      chan, producer, hist, tasks, lock, refreshedAt>>

----------------------------------------------------------------------------
(* Bounds of the model.                                                    *)

\* Instant::now() never returns more than MaxClock.
MaxClock == 1
\* num_transactions and iterations are drawn from 0..MaxEvents.
MaxEvents == 2
\* run_backtest with a streamer is given num_transactions from 0..MaxStream.
MaxStream == 3
\* The channel of the model buffers ChannelCapacity events, where the code's
\* mpsc::channel(1000) buffers 1000.
ChannelCapacity == 2

----------------------------------------------------------------------------
(* Program constants.                                                      *)

LIQUIDATION_THRESHOLD == 100
ETH_PRICE_USD == 2000

\* u64::MAX \div 10^18, where u64::MAX = 18446744073709551615
U64_MAX_DIV_E18 == 18

\* whether the u64 product x * 10u64.pow(18) exceeds u64::MAX
MulE18OverflowsU64(x) == x > U64_MAX_DIV_E18

\* the accounts, config.lending_protocol_address, and some other contract
Users == {1, 2}
ProtocolAddress == Cardinality(Users) + 1
OtherAddress == ProtocolAddress + 1

None == <<>>
Some(x) == <<x>>

Min(a, b) == IF a < b THEN a ELSE b

----------------------------------------------------------------------------
(* Bytes, hex and ABI encoding.                                            *)

\* hex::decode of a string given as its hex digits' values
RECURSIVE HexDecode(_)
HexDecode(digits) ==
    IF Len(digits) < 2 THEN <<>>
    ELSE <<16 * digits[1] + digits[2]>> \o HexDecode(SubSeq(digits, 3, Len(digits)))

\* the byte of n that is k bytes above the lowest one
RECURSIVE ByteOf(_, _)
ByteOf(n, k) == IF k = 0 THEN n % 256 ELSE ByteOf(n \div 256, k - 1)

\* U256::to_big_endian / Address::as_bytes: n as `width` big-endian bytes
BigEndian(n, width) == [i \in 1..width |-> ByteOf(n, width - i)]

Zeros(n) == [i \in 1..n |-> 0]

encode_deposit_call == HexDecode(<<13, 0, 14, 3, 0, 13, 11, 0>>)

encode_borrow_call(amount) ==
    HexDecode(<<12, 5, 14, 11, 14, 10, 14, 12>>) \o BigEndian(amount, 32)

encode_withdraw_call(amount) ==
    HexDecode(<<2, 14, 1, 10, 7, 13, 4, 13>>) \o BigEndian(amount, 32)

encode_repay_call(amount) ==
    HexDecode(<<3, 7, 1, 15, 13, 8, 14, 6>>) \o BigEndian(amount, 32)

\* liquidate(address user, uint256 debtToCover)
encode_liquidate_call(user, debt_to_cover) ==
    HexDecode(<<2, 6, 12, 13, 11, 14, 1, 10>>)
        \o (Zeros(12) \o BigEndian(user, 20))
        \o BigEndian(debt_to_cover, 32)

----------------------------------------------------------------------------
(* TransactionClassifier.                                                  *)

\* is_protocol_transaction gone wrong: unwrap_or(true)
is_protocol_transaction_lax(tx, protocol_address) ==
    IF tx.to = None THEN TRUE ELSE tx.to[1] = protocol_address

is_protocol_transaction(tx, protocol_address) ==
    IF tx.to = None THEN FALSE ELSE tx.to[1] = protocol_address

\* classify_transaction gone wrong: the arms of Borrow and Withdraw exchanged
classify_transaction_exchanged(tx) ==
    IF Len(tx.input) < 4 THEN None
    ELSE LET selector == SubSeq(tx.input, 1, 4) IN
         CASE selector = <<208, 227, 13, 176>> -> Some("Deposit")
           [] selector = <<197, 235, 234, 236>> -> Some("Withdraw")
           [] selector = <<46, 26, 125, 77>> -> Some("Borrow")
           [] selector = <<55, 31, 216, 230>> -> Some("Repay")
           [] selector = <<38, 205, 190, 26>> -> Some("Liquidate")
           [] OTHER -> None

classify_transaction(tx) ==
    IF Len(tx.input) < 4 THEN None
    ELSE LET selector == SubSeq(tx.input, 1, 4) IN
         CASE selector = <<208, 227, 13, 176>> -> Some("Deposit")
           [] selector = <<197, 235, 234, 236>> -> Some("Borrow")
           [] selector = <<46, 26, 125, 77>> -> Some("Withdraw")
           [] selector = <<55, 31, 216, 230>> -> Some("Repay")
           [] selector = <<38, 205, 190, 26>> -> Some("Liquidate")
           [] OTHER -> None

extract_user_address(tx) == tx.from

----------------------------------------------------------------------------
(* LatencyMetrics.                                                         *)

LatencyMetrics_new(now) ==
    [t_received |-> now, t_decoded |-> None, t_signal |-> None,
     t_simulated |-> None, t_constructed |-> None, t_sent |-> None]

mark_decoded(m, now) == [m EXCEPT !.t_decoded = Some(now)]

\* mark_signal gone wrong: nothing is stored
mark_signal_dropped(m, now) == m

\* mark_signal gone wrong: the time is kept once it is set
mark_signal_once(m, now) ==
    IF m.t_signal = None THEN [m EXCEPT !.t_signal = Some(now)] ELSE m

mark_signal(m, now) == [m EXCEPT !.t_signal = Some(now)]

mark_simulated(m, now) == [m EXCEPT !.t_simulated = Some(now)]

mark_constructed(m, now) == [m EXCEPT !.t_constructed = Some(now)]

mark_sent(m, now) == [m EXCEPT !.t_sent = Some(now)]

\* Instant::duration_since saturates at zero
duration_since(later, earlier) == IF later < earlier THEN 0 ELSE later - earlier

\* One reading of Instant::now() after the reading t: the clock does not go back.
Now(t) == {t, Min(t + 1, MaxClock)}

----------------------------------------------------------------------------
(* The chain and the event source.                                         *)

\* what BlockchainClient::get_position may return: (collateral, debt, healthFactor)
ChainPositions ==
    {<<5, 8, LIQUIDATION_THRESHOLD - 1>>, <<0, 8, LIQUIDATION_THRESHOLD - 1>>,
     <<0, 8, LIQUIDATION_THRESHOLD>>, <<5, 0, LIQUIDATION_THRESHOLD - 1>>,
     <<0, 0, LIQUIDATION_THRESHOLD>>}

\* call data of the events the source delivers
Payloads ==
    {encode_deposit_call, encode_borrow_call(1), encode_withdraw_call(1),
     encode_repay_call(1)}
    \cup {encode_liquidate_call(u, 1) : u \in Users}
    \cup {<<>>, SubSeq(encode_deposit_call, 1, 3), <<208, 227, 13, 177, 0>>}

\* ethers Transaction: the fields the pipeline reads
Transactions ==
    [from : Users,
     to : {None, Some(ProtocolAddress), Some(OtherAddress)},
     input : Payloads]

NoTx == [from |-> 0, to |-> None, input |-> <<>>]

----------------------------------------------------------------------------
(* LiquidationDetector.                                                    *)

\* SystemTime::now() as seconds since the epoch.  UserPosition.last_updated is
\* written and never read, so the model keeps one value for it.
UnixSeconds == 0

UserPosition(collateral, debt, health_factor, last_updated) ==
    [collateral |-> collateral, debt |-> debt,
     health_factor |-> health_factor, last_updated |-> last_updated]

\* LiquidationSignal gone wrong: collateral and debt in each other's place
LiquidationSignal_swapped(user, position, metrics) ==
    [user |-> user, collateral |-> position.debt, debt |-> position.collateral,
     health_factor |-> position.health_factor, metrics |-> metrics]

LiquidationSignal(user, position, metrics) ==
    [user |-> user, collateral |-> position.collateral, debt |-> position.debt,
     health_factor |-> position.health_factor, metrics |-> metrics]

Triple(p) == <<p.collateral, p.debt, p.health_factor>>

\* Upsert gone wrong: the new entry takes the place of the whole map
Upsert_alone(store, user, position) == (user :> position)

\* Upsert gone wrong: an entry already present is updated field by field, and
\* the collateral forgotten
Upsert_in_place(store, user, position) ==
    IF user \in DOMAIN store
    THEN [store EXCEPT ![user].debt = position.debt,
                       ![user].health_factor = position.health_factor]
    ELSE (user :> position) @@ store

\* Upsert gone wrong: an entry already present is kept, the later value lost
Upsert_keep_first(store, user, position) ==
    IF user \in DOMAIN store THEN store ELSE (user :> position) @@ store

\* positions.insert(user, position)
Upsert(store, user, position) == (user :> position) @@ store

\* get_position_count: positions.len()
get_position_count(store) == Cardinality(DOMAIN store)

\* positions.get(&user).clone()
Get(store, user) == IF user \in DOMAIN store THEN Some(store[user]) ELSE None

\* IsLiquidatable gone wrong: <= for <
IsLiquidatable_le(position) ==
    position.health_factor <= LIQUIDATION_THRESHOLD /\ position.debt > 0

\* the test of check_liquidation and scan_all_positions
IsLiquidatable(position) ==
    position.health_factor < LIQUIDATION_THRESHOLD /\ position.debt > 0

\* ChecksLiquidation gone wrong: the Liquidate arm checks the position too
ChecksLiquidation_all(tx_type) ==
    tx_type \in {"Deposit", "Withdraw", "Borrow", "Repay", "Liquidate"}

\* the arm of process_transaction that goes on to check_liquidation
ChecksLiquidation(tx_type) ==
    tx_type \in {"Deposit", "Withdraw", "Borrow", "Repay"}

\* Result<Option<LiquidationSignal>>
Ok(signal) == [error |-> FALSE, signal |-> signal]
Err == [error |-> TRUE, signal |-> None]

\* ResultOnRefreshError gone wrong: the error handed on with `?`
ResultOnRefreshError_propagated(tx_type) == Err

\* what process_transaction returns when update_position fails
ResultOnRefreshError(tx_type) == Ok(None)

\* no task calls the detector besides the harness
NoTasks == <<>>

\* the RwLock with no guard held
Unlocked == [readers |-> {}, writer |-> {}]

\* history: the nonces sent into and taken from the channel, the Signals the
\* detector returned, the events for which it returned none, and per account
\* what get_position last returned since the store was cleared
NoHist ==
    [sent |-> <<>>, taken |-> <<>>, emitted |-> 0, nosignal |-> 0, fetched |-> <<>>]

IdleCall ==
    [pc |-> "idle", tx |-> NoTx, metrics |-> LatencyMetrics_new(0),
     tx_type |-> None, user |-> 0, fetched |-> None, position |-> None,
     read |-> None, refresh |-> "none", result |-> Ok(None),
     chainCalls |-> 0, storeAccess |-> 0]

\* process_transaction up to its first await: new metrics, the two filters,
\* mark_decoded, extract_user_address, then update_position's lookup is pending
ProcessTransaction(tx, protocol_address) ==
    \E t0 \in Now(clock) :
        LET metrics == LatencyMetrics_new(t0)
            tx_type == classify_transaction(tx)
        IN  IF ~is_protocol_transaction(tx, protocol_address) \/ tx_type = None
            THEN /\ call' = [IdleCall EXCEPT !.pc = "returned", !.tx = tx,
                                             !.metrics = metrics,
                                             !.result = Ok(None)]
                 /\ clock' = t0
            ELSE \E t1 \in Now(t0) :
                 /\ call' = [IdleCall EXCEPT !.pc = "lookup", !.tx = tx,
                                             !.metrics = mark_decoded(metrics, t1),
                                             !.tx_type = tx_type,
                                             !.user = extract_user_address(tx)]
                 /\ clock' = t1

\* update_position: get_position returned Ok; the UserPosition is built and the
\* write lock is awaited
LookupOk ==
    /\ call.pc = "lookup"
    /\ \E p \in ChainPositions :
          /\ call' = [call EXCEPT
                        !.pc = "write", !.fetched = Some(p),
                        !.position = Some(UserPosition(p[1], p[2], p[3], UnixSeconds)),
                        !.chainCalls = @ + 1]
          /\ hist' = [hist EXCEPT !.fetched = (call.user :> p) @@ @]
    /\ UNCHANGED <<positions, clock, run, scanned, exec, storeAtRecv, committed, pure,
                   chan, producer,
                   tasks, lock, refreshedAt>>

\* update_position: get_position returned Err, which `?` hands to process_transaction
LookupErr ==
    /\ call.pc = "lookup"
    /\ call' = [call EXCEPT !.pc = "returned", !.refresh = "err",
                            !.chainCalls = @ + 1,
                            !.result = ResultOnRefreshError(call.tx_type[1])]
    /\ UNCHANGED <<positions, clock, run, scanned, exec, storeAtRecv, committed, pure,
                   chan, producer, hist,
                   tasks, lock, refreshedAt>>

\* update_position: the write lock is held, the snapshot inserted, Ok(()) returned;
\* the Liquidate arm then returns Ok(None), the other arm awaits the read lock
WriteStore ==
    /\ call.pc = "write"
    /\ positions' = Upsert(positions, call.user, call.position[1])
    /\ committed' = (call.user :> call.fetched[1]) @@ committed
    /\ call' = [call EXCEPT
                  !.pc = IF ChecksLiquidation(call.tx_type[1]) THEN "read" ELSE "returned",
                  !.refresh = "ok", !.storeAccess = @ + 1, !.result = Ok(None)]
    /\ refreshedAt' = (call.user :> clock) @@ refreshedAt
    /\ UNCHANGED <<clock, run, scanned, exec, storeAtRecv, pure,
                   chan, producer, hist, tasks, lock>>

\* check_liquidation under the read lock, and the rest of process_transaction
CheckLiquidation ==
    /\ call.pc = "read"
    /\ LET got == Get(positions, call.user) IN
       IF got = None \/ ~IsLiquidatable(got[1])
       THEN /\ call' = [call EXCEPT !.pc = "returned", !.read = got,
                                    !.storeAccess = @ + 1, !.result = Ok(None)]
            /\ clock' = clock
            /\ hist' = hist
       ELSE \E t1 \in Now(clock) : \E t2 \in Now(t1) :
            LET marked == mark_signal(call.metrics, t1)
                signal == LiquidationSignal(call.user, got[1], marked)
            IN  /\ call' = [call EXCEPT !.pc = "returned", !.read = got,
                                        !.storeAccess = @ + 1,
                                        !.metrics = mark_signal(marked, t2),
                                        !.result = Ok(Some(signal))]
                /\ clock' = t2
                /\ hist' = [hist EXCEPT !.emitted = @ + 1]
    /\ UNCHANGED <<positions, run, scanned, exec, storeAtRecv, committed, pure,
                   chan, producer,
                   tasks, lock, refreshedAt>>

----------------------------------------------------------------------------
(* LatencyMetrics::get_all_latencies and AggregateMetrics.                 *)

latency_decode(m) ==
    IF m.t_decoded = None THEN None
    ELSE Some(duration_since(m.t_decoded[1], m.t_received))

latency_signal_detection(m) ==
    IF m.t_decoded # None /\ m.t_signal # None
    THEN Some(duration_since(m.t_signal[1], m.t_decoded[1])) ELSE None

\* latency_simulation gone wrong: measured from decoded, not from signal
latency_simulation_from_decoded(m) ==
    IF m.t_decoded # None /\ m.t_simulated # None
    THEN Some(duration_since(m.t_simulated[1], m.t_decoded[1])) ELSE None

latency_simulation(m) ==
    IF m.t_signal # None /\ m.t_simulated # None
    THEN Some(duration_since(m.t_simulated[1], m.t_signal[1])) ELSE None

latency_construction(m) ==
    IF m.t_simulated # None /\ m.t_constructed # None
    THEN Some(duration_since(m.t_constructed[1], m.t_simulated[1])) ELSE None

latency_end_to_end(m) ==
    IF m.t_sent = None THEN None
    ELSE Some(duration_since(m.t_sent[1], m.t_received))

\* a HashMap<String, f64> holding the latencies that are Some
get_all_latencies(m) ==
    LET all == [decode_us |-> latency_decode(m),
                signal_detection_us |-> latency_signal_detection(m),
                simulation_us |-> latency_simulation(m),
                construction_us |-> latency_construction(m),
                end_to_end_us |-> latency_end_to_end(m)]
    IN  [k \in {n \in DOMAIN all : all[n] # None} |-> all[k][1]]

AggregateMetrics_new ==
    [total_attempts |-> 0, successful_liquidations |-> 0,
     failed_liquidations |-> 0, latencies |-> <<>>]

\* record_attempt gone wrong: a failure is recorded but not counted as one
record_attempt_uncounted(agg, metrics, success) ==
    [total_attempts |-> agg.total_attempts + 1,
     successful_liquidations |->
         agg.successful_liquidations + (IF success THEN 1 ELSE 0),
     failed_liquidations |-> agg.failed_liquidations,
     latencies |-> Append(agg.latencies, get_all_latencies(metrics))]

\* record_attempt gone wrong: only a success is recorded
record_attempt_success_only(agg, metrics, success) ==
    IF success
    THEN [total_attempts |-> agg.total_attempts + 1,
          successful_liquidations |-> agg.successful_liquidations + 1,
          failed_liquidations |-> agg.failed_liquidations,
          latencies |-> Append(agg.latencies, get_all_latencies(metrics))]
    ELSE agg

record_attempt(agg, metrics, success) ==
    [total_attempts |-> agg.total_attempts + 1,
     successful_liquidations |->
         agg.successful_liquidations + (IF success THEN 1 ELSE 0),
     failed_liquidations |-> agg.failed_liquidations + (IF success THEN 0 ELSE 1),
     latencies |-> Append(agg.latencies, get_all_latencies(metrics))]

----------------------------------------------------------------------------
(* f64 arithmetic, as far as percentile uses it.  A natural number is held  *)
(* as its binary digits, lowest first, <<>> being zero; an f64 that is not  *)
(* negative is [mant, exp], standing for mant * 2^exp with mant < 2^53.     *)

\* the bits of an f64's significand
F64_MANTISSA_DIGITS == 53
\* binary places a dividend is extended by before it is divided
DIVISION_GUARD_BITS == 64

RECURSIVE ToBits(_)
ToBits(n) == IF n = 0 THEN <<>> ELSE <<n % 2>> \o ToBits(n \div 2)

RECURSIVE FromBits(_)
FromBits(bits) == IF bits = <<>> THEN 0 ELSE bits[1] + 2 * FromBits(Tail(bits))

\* the digits without zeros at the high end
Trim(bits) ==
    LET ones == {i \in 1..Len(bits) : bits[i] = 1}
    IN  IF ones = {} THEN <<>>
        ELSE SubSeq(bits, 1, CHOOSE i \in ones : \A j \in ones : j <= i)

\* bits + 1
RECURSIVE Inc(_)
Inc(bits) ==
    IF bits = <<>> THEN <<1>>
    ELSE IF bits[1] = 0 THEN <<1>> \o Tail(bits)
    ELSE <<0>> \o Inc(Tail(bits))

\* a natural number regrouped into digits of base 2^20, lowest first
LimbBase == 2^20

ToLimbs(bits) ==
    [k \in 1..((Len(bits) + 19) \div 20) |->
        FromBits(SubSeq(bits, 20 * (k - 1) + 1, Min(20 * k, Len(bits))))]

LimbsToBits(limbs) ==
    Trim([i \in 1..(20 * Len(limbs)) |->
             (limbs[(i - 1) \div 20 + 1] \div 2^((i - 1) % 20)) % 2])

RECURSIVE MulLimbs(_, _, _)
MulLimbs(limbs, n, carry) ==
    IF limbs = <<>> THEN (IF carry = 0 THEN <<>> ELSE <<carry>>)
    ELSE LET v == limbs[1] * n + carry
         IN  <<v % LimbBase>> \o MulLimbs(Tail(limbs), n, v \div LimbBase)

\* quotient and remainder by long division, the highest digit first
RECURSIVE DivLimbs(_, _)
DivLimbs(limbs, d) ==
    IF limbs = <<>> THEN [q |-> <<>>, r |-> 0]
    ELSE LET hi == DivLimbs(Tail(limbs), d)
             cur == hi.r * LimbBase + limbs[1]
         IN  [q |-> <<cur \div d>> \o hi.q, r |-> cur % d]

\* bits * n, for n < 2^10
MulSmall(bits, n) ==
    IF bits = <<>> THEN <<>> ELSE LimbsToBits(MulLimbs(ToLimbs(bits), n, 0))

\* quotient and remainder of bits by d, for d < 2^10
DivSmall(bits, d) ==
    IF bits = <<>> THEN [q |-> <<>>, r |-> 0]
    ELSE LET qr == DivLimbs(ToLimbs(bits), d)
         IN  [q |-> LimbsToBits(qr.q), r |-> qr.r]

\* bits * 2^exp, plus a fraction of the last place that is not zero iff
\* `sticky`, rounded to the nearest f64, ties to the even significand
RoundToF64(bits, sticky, exp) ==
    IF Len(bits) <= F64_MANTISSA_DIGITS THEN [mant |-> bits, exp |-> exp]
    ELSE LET s == Len(bits) - F64_MANTISSA_DIGITS
             kept == SubSeq(bits, s + 1, Len(bits))
             below == sticky \/ \E i \in 1..(s - 1) : bits[i] = 1
             up == bits[s] = 1 /\ (below \/ kept[1] = 1)
             mant == IF up THEN Inc(kept) ELSE kept
         IN  IF Len(mant) > F64_MANTISSA_DIGITS
             THEN [mant |-> Tail(mant), exp |-> exp + s + 1]
             ELSE [mant |-> mant, exp |-> exp + s]

\* `n as f64` for n < 2^53
F64(n) == [mant |-> ToBits(n), exp |-> 0]

\* a / d in f64, d a small whole number (a / 100.0)
f64_div(a, d) ==
    IF a.mant = <<>> THEN a
    ELSE LET qr == DivSmall([i \in 1..DIVISION_GUARD_BITS |-> 0] \o a.mant, d)
         IN  RoundToF64(qr.q, qr.r # 0, a.exp - DIVISION_GUARD_BITS)

\* a * n in f64, n a small whole number (a * len as f64)
f64_mul(a, n) == RoundToF64(MulSmall(a.mant, n), FALSE, a.exp)

\* a.floor() as usize
f64_floor(a) ==
    IF a.exp >= 0 THEN FromBits(a.mant) * 2^(a.exp)
    ELSE FromBits(SubSeq(a.mant, 1 - a.exp, Len(a.mant)))

----------------------------------------------------------------------------
(* AggregateMetrics::percentile and AggregateMetrics::mean.                *)

\* PresentValues gone wrong: a row without the metric counts as zero
PresentValues_zero_filled(rows, metric_name) ==
    [i \in 1..Len(rows) |->
        IF metric_name \in DOMAIN rows[i] THEN rows[i][metric_name] ELSE 0]

\* latencies.iter().filter_map(|m| m.get(metric_name).copied()).collect()
PresentValues(rows, metric_name) ==
    LET F[k \in 0..Len(rows)] ==
            IF k = 0 THEN <<>>
            ELSE IF metric_name \in DOMAIN rows[k]
                 THEN Append(F[k - 1], rows[k][metric_name])
                 ELSE F[k - 1]
    IN  F[Len(rows)]

\* Sorted gone wrong: the values are left in the order of their rows
Sorted_unsorted(values) == values

\* Sorted gone wrong: descending
Sorted_descending(values) == SortSeq(values, LAMBDA a, b : a > b)

\* values.sort_by(|a, b| a.partial_cmp(b).unwrap())
Sorted(values) == SortSeq(values, LAMBDA a, b : a < b)

\* ((percentile / 100.0) * values.len() as f64).floor() as usize
PercentileIndex(percentile, len) ==
    f64_floor(f64_mul(f64_div(F64(percentile), 100), len))

\* percentile(metric_name, percentile), the percentile a whole number
percentile(agg, metric_name, pct) ==
    LET values == PresentValues(agg.latencies, metric_name)
    IN  IF values = <<>> THEN None
        ELSE LET index == PercentileIndex(pct, Len(values))
             IN  Some(Sorted(values)[Min(index, Len(values) - 1) + 1])

RECURSIVE Sum(_)
Sum(values) == IF values = <<>> THEN 0 ELSE Head(values) + Sum(Tail(values))

\* mean(metric_name): the quotient sum / count, held as the two numbers
mean(agg, metric_name) ==
    LET values == PresentValues(agg.latencies, metric_name)
    IN  IF values = <<>> THEN None
        ELSE Some([sum |-> Sum(values), count |-> Len(values)])

----------------------------------------------------------------------------
(* U256 and f64 arithmetic, as far as the simulator uses it.  A U256, like  *)
(* every natural number here, is its binary digits, lowest first, with no   *)
(* zero at the high end; a signed f64 is [neg, mant, exp], standing for     *)
(* (-1)^neg * mant * 2^exp with mant odd and below 2^53, or zero.           *)

\* bits * 2^k and bits \div 2^k
Shl(bits, k) == IF bits = <<>> THEN <<>> ELSE [i \in 1..k |-> 0] \o bits
Shr(bits, k) == IF Len(bits) <= k THEN <<>> ELSE SubSeq(bits, k + 1, Len(bits))

\* bits % 2^k: what a k-bit unsigned integer keeps of a wrapping operation
Wrap(bits, k) == Trim(SubSeq(bits, 1, Min(k, Len(bits))))

\* a < b
Less(a, b) ==
    IF Len(a) # Len(b) THEN Len(a) < Len(b)
    ELSE LET differ == {i \in 1..Len(a) : a[i] # b[i]}
         IN  /\ differ # {}
             /\ a[CHOOSE i \in differ : \A j \in differ : j <= i] = 0

RECURSIVE AddLimbs(_, _, _)
AddLimbs(x, y, carry) ==
    IF x = <<>> /\ y = <<>> THEN (IF carry = 0 THEN <<>> ELSE <<carry>>)
    ELSE LET v == (IF x = <<>> THEN 0 ELSE x[1]) + (IF y = <<>> THEN 0 ELSE y[1])
                  + carry
         IN  <<v % LimbBase>>
             \o AddLimbs(IF x = <<>> THEN x ELSE Tail(x),
                         IF y = <<>> THEN y ELSE Tail(y), v \div LimbBase)

\* x - y for x >= y
RECURSIVE SubLimbs(_, _, _)
SubLimbs(x, y, borrow) ==
    IF x = <<>> THEN <<>>
    ELSE LET v == x[1] - (IF y = <<>> THEN 0 ELSE y[1]) - borrow
         IN  <<(v + LimbBase) % LimbBase>>
             \o SubLimbs(Tail(x), IF y = <<>> THEN y ELSE Tail(y),
                         IF v < 0 THEN 1 ELSE 0)

Add(a, b) ==
    IF a = <<>> THEN b
    ELSE IF b = <<>> THEN a
    ELSE LimbsToBits(AddLimbs(ToLimbs(a), ToLimbs(b), 0))

\* a - b for a >= b
Sub(a, b) ==
    IF b = <<>> THEN a ELSE LimbsToBits(SubLimbs(ToLimbs(a), ToLimbs(b), 0))

\* a natural number regrouped into digits of base 2^10, lowest first
Digits(bits) ==
    [k \in 1..((Len(bits) + 9) \div 10) |->
        FromBits(SubSeq(bits, 10 * (k - 1) + 1, Min(10 * k, Len(bits))))]

DigitsToBits(digits) ==
    Trim([i \in 1..(10 * Len(digits)) |->
             (digits[(i - 1) \div 10 + 1] \div 2^((i - 1) % 10)) % 2])

\* a times the number of the digits given
RECURSIVE MulDigits(_, _)
MulDigits(a, digits) ==
    IF digits = <<>> THEN <<>>
    ELSE Add(MulSmall(a, digits[1]), Shl(MulDigits(a, Tail(digits)), 10))

\* a * b
Mul(a, b) == IF a = <<>> \/ b = <<>> THEN <<>> ELSE MulDigits(a, Digits(b))

\* the greatest q' in q..(q + 2^(k+1) - 1) with q' * d <= r, by bisection
RECURSIVE QuotientDigit(_, _, _, _)
QuotientDigit(r, d, q, k) ==
    IF k < 0 THEN q
    ELSE IF Less(r, MulSmall(d, q + 2^k)) THEN QuotientDigit(r, d, q, k - 1)
    ELSE QuotientDigit(r, d, q + 2^k, k - 1)

\* long division of the digits given by d, the highest digit first
RECURSIVE DivDigits(_, _)
DivDigits(digits, d) ==
    IF digits = <<>> THEN [q |-> <<>>, r |-> <<>>]
    ELSE LET hi == DivDigits(Tail(digits), d)
             cur == Add(Shl(hi.r, 10), ToBits(digits[1]))
             qd == QuotientDigit(cur, d, 0, 9)
         IN  IF hi.r = <<>> /\ digits[1] = 0 THEN [q |-> <<0>> \o hi.q, r |-> <<>>]
             ELSE [q |-> <<qd>> \o hi.q, r |-> Sub(cur, MulSmall(d, qd))]

\* quotient and remainder of a by d, d not zero
Div(a, d) ==
    IF a = <<>> \/ d = <<>> THEN [q |-> <<>>, r |-> <<>>]
    ELSE LET qr == DivDigits(Digits(a), d)
         IN  [q |-> DigitsToBits(qr.q), r |-> qr.r]

\* 10^9, and 10u64.pow(18)
E9 == ToBits(1000000000)
E18 == Mul(E9, E9)

\* whether the value fits an unsigned integer of `width` bits
Fits(bits, width) == Len(bits) <= width

\* [mant, exp] with the zeros at the low end of mant moved into exp
Normal(neg, a) ==
    IF Trim(a.mant) = <<>> THEN [neg |-> FALSE, mant |-> <<>>, exp |-> 0]
    ELSE LET ones == {i \in 1..Len(a.mant) : a.mant[i] = 1}
             low == CHOOSE i \in ones : \A j \in ones : i <= j
         IN  [neg |-> neg, mant |-> Shr(Trim(a.mant), low - 1),
              exp |-> a.exp + low - 1]

\* `x as f64` for an unsigned integer x: the nearest f64
as_f64(bits) == Normal(FALSE, RoundToF64(bits, FALSE, 0))

\* bits \div 1000^k, and whether anything was left over
RECURSIVE DivThousands(_, _)
DivThousands(bits, k) ==
    IF k = 0 THEN [q |-> bits, inexact |-> FALSE]
    ELSE LET one == DivSmall(bits, 1000)
             rest == DivThousands(one.q, k - 1)
         IN  [q |-> rest.q, inexact |-> rest.inexact \/ one.r # 0]

\* binary places a dividend is extended by before it is divided by 1000^k
WIDE_GUARD_BITS == 128

\* x / 1e18 and x / 1e9 in f64: x / 1000^k for k = 6 and k = 3, both
\* divisors being f64 values
f64_div_thousands(x, k) ==
    IF x.mant = <<>> THEN x
    ELSE LET qr == DivThousands(Shl(x.mant, WIDE_GUARD_BITS), k)
         IN  Normal(x.neg, RoundToF64(qr.q, qr.inexact, x.exp - WIDE_GUARD_BITS))

\* x * y in f64
f64_times(x, y) ==
    Normal(x.neg # y.neg, RoundToF64(Mul(x.mant, y.mant), FALSE, x.exp + y.exp))

\* x + y in f64
f64_add(x, y) ==
    LET e == Min(x.exp, y.exp)
        xm == Shl(x.mant, x.exp - e)
        ym == Shl(y.mant, y.exp - e)
    IN  IF x.neg = y.neg THEN Normal(x.neg, RoundToF64(Add(xm, ym), FALSE, e))
        ELSE IF Less(xm, ym) THEN Normal(y.neg, RoundToF64(Sub(ym, xm), FALSE, e))
        ELSE Normal(x.neg, RoundToF64(Sub(xm, ym), FALSE, e))

\* x - y in f64
f64_sub(x, y) == f64_add(x, [y EXCEPT !.neg = (y.mant # <<>> /\ ~y.neg)])

\* x > y and x >= y
f64_gt(x, y) == LET d == f64_sub(x, y) IN d.mant # <<>> /\ ~d.neg
f64_ge(x, y) == LET d == f64_sub(x, y) IN d.mant = <<>> \/ ~d.neg

\* the f64 of a whole number below 2^31
Whole(n) == as_f64(ToBits(n))

----------------------------------------------------------------------------
(* LiquidationSimulator.  Amounts are U256 values; the gas lookups of the   *)
(* blockchain client answer Ok(amount) or Err.                              *)

LIQUIDATION_BONUS == 110
PRECISION == 100

\* the gas units and the gas price, in gwei, used when a lookup fails
FALLBACK_GAS == 300000
FALLBACK_GWEI == 50

\* widths of the unsigned integers
U64_BITS == 64
U128_BITS == 128
U256_BITS == 256

\* what a gas lookup answers
GasOk(amount) == [ok |-> TRUE, value |-> amount]
GasErr == [ok |-> FALSE, value |-> <<>>]

\* x as_u128() panics and U256 products panic beyond their widths
Panicked == [panicked |-> TRUE]

\* ETH_PRICE_USD * 10u64.pow(18) if u64 had room for it: 2000 * 10^18
PriceDivisor_exact == Mul(ToBits(ETH_PRICE_USD), E18)

\* ETH_PRICE_USD * 10u64.pow(18) as a build without overflow checks has it:
\* the product modulo 2^64
PriceDivisor == Wrap(Mul(ToBits(ETH_PRICE_USD), E18), U64_BITS)

\* (x.as_u128() as f64 / 1e18), x below 2^128
InUnits(x) == f64_div_thousands(as_f64(x), 6)

\* `x as f64` for ETH_PRICE_USD
PriceF64 == Whole(ETH_PRICE_USD)

\* Seize gone wrong: no more is seized than the collateral the signal holds
Seize_capped(signal, overflow_checks) ==
    LET debt_to_cover == signal.debt
        product == Mul(debt_to_cover, E18)
    IN  IF ~Fits(product, U256_BITS) THEN Panicked
        ELSE IF overflow_checks /\ MulE18OverflowsU64(ETH_PRICE_USD) THEN Panicked
        ELSE LET collateral_value == Div(product, PriceDivisor).q
                 with_bonus == MulSmall(collateral_value, LIQUIDATION_BONUS)
                 seized == DivSmall(with_bonus, PRECISION).q
             IN  IF ~Fits(with_bonus, U256_BITS) THEN Panicked
                 ELSE [panicked |-> FALSE,
                       debt_to_cover |-> debt_to_cover,
                       collateral_value |-> collateral_value,
                       collateral_to_seize |->
                           IF Less(signal.collateral, seized)
                           THEN signal.collateral ELSE seized]

\* the first statements of simulate_liquidation: debt_to_cover,
\* collateral_value and collateral_to_seize
Seize(signal, overflow_checks) ==
    LET debt_to_cover == signal.debt
        product == Mul(debt_to_cover, E18)
    IN  IF ~Fits(product, U256_BITS) THEN Panicked
        ELSE IF overflow_checks /\ MulE18OverflowsU64(ETH_PRICE_USD) THEN Panicked
        ELSE LET collateral_value == Div(product, PriceDivisor).q
                 with_bonus == MulSmall(collateral_value, LIQUIDATION_BONUS)
             IN  IF ~Fits(with_bonus, U256_BITS) THEN Panicked
                 ELSE [panicked |-> FALSE,
                       debt_to_cover |-> debt_to_cover,
                       collateral_value |-> collateral_value,
                       collateral_to_seize |-> DivSmall(with_bonus, PRECISION).q]

\* the match on estimate_gas_liquidation(..).await gone wrong: no fallback
GasEstimate_no_fallback(answer) == answer.value

\* the match on estimate_gas_liquidation(..).await
GasEstimate(answer) == IF answer.ok THEN answer.value ELSE ToBits(FALLBACK_GAS)

\* get_gas_price().await.unwrap_or(U256::from(50_000_000_000u64))
GasPrice(answer) ==
    IF answer.ok THEN answer.value ELSE Mul(ToBits(FALLBACK_GWEI), E9)

\* gas_cost_wei, gas_cost_eth and gas_cost_usd
GasCost(gas_estimate, gas_price) ==
    LET gas_cost_wei == Mul(gas_estimate, gas_price)
    IN  IF ~Fits(gas_cost_wei, U256_BITS) \/ ~Fits(gas_cost_wei, U128_BITS)
        THEN Panicked
        ELSE [panicked |-> FALSE,
              gas_cost_usd |-> f64_times(InUnits(gas_cost_wei), PriceF64)]

\* expected_profit_usd of its three terms
ExpectedProfit(collateral_value_usd, debt_value_usd, gas_cost_usd) ==
    f64_sub(f64_sub(collateral_value_usd, debt_value_usd), gas_cost_usd)

\* the comparison with the threshold gone wrong: equality does not count
IsProfitable_strict(expected_profit_usd, min_profit_threshold) ==
    f64_gt(expected_profit_usd, min_profit_threshold)

\* expected_profit_usd >= self.min_profit_threshold
IsProfitable(expected_profit_usd, min_profit_threshold) ==
    f64_ge(expected_profit_usd, min_profit_threshold)

\* the profit and the SimulationResult
Profit(frame, min_profit_threshold) ==
    IF ~Fits(frame.collateral_to_seize, U128_BITS)
       \/ ~Fits(frame.debt_to_cover, U128_BITS)
    THEN Panicked
    ELSE LET collateral_value_usd ==
                 f64_times(InUnits(frame.collateral_to_seize), PriceF64)
             debt_value_usd == InUnits(frame.debt_to_cover)
             expected_profit_usd ==
                 ExpectedProfit(collateral_value_usd, debt_value_usd,
                                frame.gas_cost_usd)
         IN  [panicked |-> FALSE,
              result |->
                [profitable |-> IsProfitable(expected_profit_usd,
                                             min_profit_threshold),
                 expected_profit_usd |-> expected_profit_usd,
                 collateral_to_seize |-> frame.collateral_to_seize,
                 debt_to_cover |-> frame.debt_to_cover,
                 estimated_gas |-> frame.gas_estimate,
                 estimated_gas_cost_usd |-> frame.gas_cost_usd]]

\* the literal 0.10
Tenth == Normal(FALSE, f64_div(F64(1), 10))

\* (300_000.0 * 50.0) / 1e9 * ETH_PRICE_USD as f64
QuickGasCost ==
    f64_times(f64_div_thousands(f64_times(Whole(FALLBACK_GAS), Whole(FALLBACK_GWEI)), 3),
              PriceF64)

\* quick_profitability_check(&signal)
quick_profitability_check(signal, min_profit_threshold) ==
    IF ~Fits(signal.collateral, U128_BITS) \/ ~Fits(signal.debt, U128_BITS)
    THEN Panicked
    ELSE LET collateral_value_usd == f64_times(InUnits(signal.collateral), PriceF64)
             debt_value_usd == InUnits(signal.debt)
             bonus_value == f64_sub(f64_times(collateral_value_usd, Tenth),
                                    f64_times(debt_value_usd, Whole(0)))
         IN  [panicked |-> FALSE,
              value |-> f64_gt(bonus_value,
                               f64_add(QuickGasCost, min_profit_threshold))]

\* optimize_debt_amount(&signal)
optimize_debt_amount(signal) == signal.debt

----------------------------------------------------------------------------
(* BacktestEngine.                                                         *)

NoRun ==
    [mode |-> "none", pc |-> "none", num |-> 0, processed |-> 0,
     liquidations_found |-> 0, i |-> 0, test_user |-> 0,
     aggregate_metrics |-> AggregateMetrics_new, signal |-> None,
     metrics |-> None, sim_result |-> None]

\* no channel: neither end exists
NoChan == [buffer |-> <<>>, sender |-> FALSE, receiver |-> FALSE]

\* no task runs start_simulation
IdleProducer == [pc |-> "none", i |-> 0, num_transactions |-> 0]

\* no harness run and no executor call is in progress, no scan result is held
Quiet == run.pc = "none" /\ exec.pc = "idle" /\ scanned = <<>>

\* MarkExecuted gone wrong: sent marked before constructed
MarkExecuted_sent_first(m, t1, t2) == mark_constructed(mark_sent(m, t1), t2)

\* MarkExecuted gone wrong: constructed is marked, sent is not
MarkExecuted_unsent(m, t1, t2) == mark_constructed(m, t1)

\* the marks after a profitable simulation: constructed, then sent
MarkExecuted(m, t1, t2) == mark_sent(mark_constructed(m, t1), t2)

\* Result<SimulationResult>, as far as the harness reads it
SimOk(profitable) == [ok |-> TRUE, profitable |-> profitable]
SimErr == [ok |-> FALSE, profitable |-> FALSE]

\* AfterSimulation gone wrong: every result that is Ok is recorded a success
AfterSimulation_ok_is_success(m, result, t0, t1, t2) ==
    IF result.ok
    THEN [metrics |-> MarkExecuted(mark_simulated(m, t0), t1, t2), success |-> TRUE]
    ELSE [metrics |-> m, success |-> FALSE]

\* the match on simulate_liquidation(&signal).await: the metrics marked by
\* its arm, and the success flag its record_attempt is given
AfterSimulation(m, result, t0, t1, t2) ==
    IF result.ok /\ result.profitable
    THEN [metrics |-> MarkExecuted(mark_simulated(m, t0), t1, t2), success |-> TRUE]
    ELSE IF result.ok
    THEN [metrics |-> mark_simulated(m, t0), success |-> FALSE]
    ELSE [metrics |-> m, success |-> FALSE]

\* run_backtest(num_transactions) up to its first rx.recv().await
StartBacktest ==
    /\ Quiet
    /\ \E n \in 0..MaxEvents :
          run' = [NoRun EXCEPT !.mode = "backtest", !.pc = "recv", !.num = n]
    /\ UNCHANGED <<positions, clock, call, scanned, exec, storeAtRecv, committed, pure,
                   chan, producer, hist,
                   tasks, lock, refreshedAt>>

\* rx.recv() yields Some(tx): processed += 1 and process_transaction starts
Recv ==
    /\ run.mode = "backtest" /\ run.pc = "recv"
    /\ run.processed < run.num
    /\ \E tx \in Transactions : ProcessTransaction(tx, ProtocolAddress)
    /\ run' = [run EXCEPT !.processed = @ + 1, !.pc = "detect"]
    /\ storeAtRecv' = positions
    /\ UNCHANGED <<positions, scanned, exec, committed, pure,
                   chan, producer, hist,
                   tasks, lock, refreshedAt>>

\* process_transaction returned Ok(None) or Err: back to rx.recv()
NoSignal ==
    /\ run.pc = "detect" /\ call.pc = "returned"
    /\ call.result.signal = None
    /\ run' = [run EXCEPT !.pc = "recv"]
    /\ call' = IdleCall
    /\ storeAtRecv' = <<>>
    /\ hist' = [hist EXCEPT !.nosignal = @ + 1]
    /\ UNCHANGED <<positions, clock, scanned, exec, committed, pure, chan, producer,
                   tasks, lock, refreshedAt>>

\* process_transaction returned Ok(Some(signal)): the harness marks the signal
\* again and awaits simulate_liquidation
GotSignal ==
    /\ run.pc = "detect" /\ call.pc = "returned"
    /\ call.result.signal # None
    /\ \E t \in Now(clock) :
          /\ run' = [run EXCEPT
                       !.pc = "simulate",
                       !.liquidations_found = @ + 1,
                       !.signal = Some([call.result.signal[1] EXCEPT
                                          !.metrics = mark_signal(@, t)])]
          /\ clock' = t
    /\ UNCHANGED <<positions, call, scanned, exec, storeAtRecv, committed, pure,
                   chan, producer, hist,
                   tasks, lock, refreshedAt>>

\* simulate_liquidation returned Ok(sim_result): the marks and record_attempt,
\* to the end of the loop body.  (simulate_liquidation has no Err return.)
Simulated ==
    /\ run.mode = "backtest" /\ run.pc = "simulate"
    /\ \E profitable \in BOOLEAN :
       \E t0 \in Now(clock) : \E t1 \in Now(t0) : \E t2 \in Now(t1) :
          LET after == AfterSimulation(run.signal[1].metrics, SimOk(profitable),
                                       t0, t1, t2)
          IN  /\ run' = [run EXCEPT
                           !.pc = "recorded",
                           !.sim_result = Some(SimOk(profitable)),
                           !.signal = Some([@[1] EXCEPT !.metrics = after.metrics]),
                           !.aggregate_metrics =
                               record_attempt(@, after.metrics, after.success)]
              /\ clock' = IF profitable THEN t2 ELSE t0
    /\ UNCHANGED <<positions, call, scanned, exec, storeAtRecv, committed, pure,
                   chan, producer, hist,
                   tasks, lock, refreshedAt>>

\* simulate_liquidation panics.  Its first statement multiplies
\* ETH_PRICE_USD by 10u64.pow(18) in u64: a build with overflow checks (the
\* default of an unoptimised build) panics there, a build without them wraps
\* and goes on to Simulated.  The panic unwinds the harness, which drops the
\* receiving end of the channel and never returns.
SimulationPanics ==
    /\ run.pc = "simulate"
    /\ MulE18OverflowsU64(ETH_PRICE_USD)
    /\ run' = [run EXCEPT !.pc = "panicked"]
    /\ chan' = [chan EXCEPT !.receiver = FALSE]
    /\ UNCHANGED <<positions, clock, call, scanned, exec, storeAtRecv, committed, pure,
                   producer, hist,
                   tasks, lock, refreshedAt>>

\* the loop body ends, the signal is dropped: back to rx.recv()
LoopBack ==
    /\ run.mode = "backtest" /\ run.pc = "recorded"
    /\ run' = [run EXCEPT !.pc = "recv", !.signal = None, !.sim_result = None]
    /\ call' = IdleCall
    /\ storeAtRecv' = <<>>
    /\ UNCHANGED <<positions, clock, scanned, exec, committed, pure,
                   chan, producer, hist,
                   tasks, lock, refreshedAt>>

\* rx.recv() yields None after num_transactions events: Ok(aggregate_metrics)
EndBacktest ==
    /\ run.mode = "backtest" /\ run.pc = "recv"
    /\ run.processed = run.num
    /\ run' = [run EXCEPT !.pc = "done"]
    /\ UNCHANGED <<positions, clock, call, scanned, exec, storeAtRecv, committed, pure,
                   chan, producer, hist,
                   tasks, lock, refreshedAt>>

\* run_latency_stress_test(iterations): test_user = Address::random()
StartStress ==
    /\ Quiet
    /\ \E n \in 0..MaxEvents, u \in Users :
          run' = [NoRun EXCEPT !.mode = "stress", !.pc = "iter", !.num = n,
                               !.test_user = u]
    /\ UNCHANGED <<positions, clock, call, scanned, exec, storeAtRecv, committed, pure,
                   chan, producer, hist,
                   tasks, lock, refreshedAt>>

\* one iteration up to the await of simulate_liquidation
StressIter ==
    /\ run.mode = "stress" /\ run.pc = "iter"
    /\ run.i < run.num
    /\ \E t0 \in Now(clock) : \E t1 \in Now(t0) : \E t2 \in Now(t1) :
          LET metrics == mark_decoded(LatencyMetrics_new(t0), t1)
              signal == [user |-> run.test_user, collateral |-> 5, debt |-> 8000,
                         health_factor |-> 80, metrics |-> metrics]
          IN  /\ run' = [run EXCEPT !.pc = "simulate", !.signal = Some(signal),
                                    !.metrics = Some(mark_signal(metrics, t2))]
              /\ clock' = t2
    /\ UNCHANGED <<positions, call, scanned, exec, storeAtRecv, committed, pure,
                   chan, producer, hist,
                   tasks, lock, refreshedAt>>

\* the iteration panics building its signal: 8000 * 10u64.pow(18) is a u64
\* product, checked or wrapping as the build has it
StressPanics ==
    /\ run.mode = "stress" /\ run.pc = "iter"
    /\ run.i < run.num
    /\ MulE18OverflowsU64(8000)
    /\ \E t0 \in Now(clock) : \E t1 \in Now(t0) :
          /\ run' = [run EXCEPT !.pc = "panicked",
                                !.metrics =
                                    Some(mark_decoded(LatencyMetrics_new(t0), t1))]
          /\ clock' = t1
    /\ UNCHANGED <<positions, call, scanned, exec, storeAtRecv, committed, pure,
                   chan, producer, hist,
                   tasks, lock, refreshedAt>>

\* simulate_liquidation returned Ok(sim_result) in the stress loop
StressSimulated ==
    /\ run.mode = "stress" /\ run.pc = "simulate"
    /\ \E profitable \in BOOLEAN :
       \E t0 \in Now(clock) : \E t1 \in Now(t0) : \E t2 \in Now(t1) :
          LET after == AfterSimulation(run.metrics[1], SimOk(profitable), t0, t1, t2)
          IN  /\ run' = [run EXCEPT
                           !.pc = "recorded",
                           !.sim_result = Some(SimOk(profitable)),
                           !.metrics = Some(after.metrics),
                           !.aggregate_metrics =
                               record_attempt(@, after.metrics, after.success)]
              /\ clock' = IF profitable THEN t2 ELSE t0
    /\ UNCHANGED <<positions, call, scanned, exec, storeAtRecv, committed, pure,
                   chan, producer, hist,
                   tasks, lock, refreshedAt>>

\* the iteration ends, signal and metrics are dropped: i + 1
StressLoopBack ==
    /\ run.mode = "stress" /\ run.pc = "recorded"
    /\ run' = [run EXCEPT !.pc = "iter", !.i = @ + 1, !.signal = None,
                          !.metrics = None, !.sim_result = None]
    /\ UNCHANGED <<positions, clock, call, scanned, exec, storeAtRecv, committed, pure,
                   chan, producer, hist,
                   tasks, lock, refreshedAt>>

EndStress ==
    /\ run.mode = "stress" /\ run.pc = "iter"
    /\ run.i = run.num
    /\ run' = [run EXCEPT !.pc = "done"]
    /\ UNCHANGED <<positions, clock, call, scanned, exec, storeAtRecv, committed, pure,
                   chan, producer, hist,
                   tasks, lock, refreshedAt>>

\* main takes the AggregateMetrics a run returned
ReturnRun ==
    /\ run.pc = "done"
    /\ run' = NoRun
    /\ chan' = NoChan
    /\ producer' = IdleProducer
    /\ hist' = [NoHist EXCEPT !.fetched = hist.fetched]
    /\ UNCHANGED <<positions, clock, call, scanned, exec, storeAtRecv, committed, pure,
                   tasks, lock, refreshedAt>>

----------------------------------------------------------------------------
(* MempoolStreamer and the channel between it and run_backtest.            *)

\* generate_synthetic_transaction(nonce), `from` being Address::random()
generate_synthetic_transaction(nonce, from, protocol_address) ==
    LET tx_type == nonce % 10
        input ==
            CASE tx_type \in 0..3 -> encode_deposit_call
              [] tx_type \in 4..6 -> encode_borrow_call(1000 * 10^18)
              [] tx_type \in 7..8 -> encode_withdraw_call(5 * 10^17)
              [] OTHER -> encode_repay_call(500 * 10^18)
    IN  [nonce |-> nonce, from |-> from, to |-> Some(protocol_address),
         input |-> input]

\* HasCapacity gone wrong: a send completes however many events are buffered
HasCapacity_unbounded(buffer) == TRUE

\* whether tx_sender.send(tx) can complete: a permit of the channel is free
HasCapacity(buffer) == Len(buffer) < ChannelCapacity

\* Dequeue gone wrong: the newest buffered event comes out first
Dequeue_newest(buffer) ==
    [tx |-> buffer[Len(buffer)], rest |-> SubSeq(buffer, 1, Len(buffer) - 1)]

\* rx.recv() on a buffer that is not empty: the oldest event and the rest
Dequeue(buffer) == [tx |-> Head(buffer), rest |-> Tail(buffer)]

\* run_backtest(num_transactions) up to its first rx.recv().await: the channel
\* is made and the task that runs start_simulation is spawned
SpawnStreamer ==
    /\ Quiet /\ producer.pc = "none"
    /\ \E n \in 0..MaxStream :
          /\ run' = [NoRun EXCEPT !.mode = "backtest", !.pc = "recv", !.num = n]
          /\ producer' = [pc |-> "loop", i |-> 0, num_transactions |-> n]
    /\ chan' = [buffer |-> <<>>, sender |-> TRUE, receiver |-> TRUE]
    /\ hist' = [NoHist EXCEPT !.fetched = hist.fetched]
    /\ UNCHANGED <<positions, clock, call, scanned, exec, storeAtRecv, committed, pure,
                   tasks, lock, refreshedAt>>

\* one turn of start_simulation's loop: the transaction is generated and
\* send(tx).await completes, which it does only when the buffer has room
Send ==
    /\ producer.pc = "loop" /\ producer.i < producer.num_transactions
    /\ chan.receiver
    /\ HasCapacity(chan.buffer)
    /\ \E from \in Users :
          chan' = [chan EXCEPT !.buffer =
                      Append(@, generate_synthetic_transaction(
                                    producer.i, from, ProtocolAddress))]
    /\ producer' = [producer EXCEPT !.i = @ + 1]
    /\ hist' = [hist EXCEPT !.sent = Append(@, producer.i)]
    /\ UNCHANGED <<positions, clock, call, run, scanned, exec, storeAtRecv, committed,
                   pure,
                   tasks, lock, refreshedAt>>

\* send(tx).await returns Err, the receiver being gone: the loop breaks,
\* start_simulation returns and the streamer with its sender is dropped
SendFails ==
    /\ producer.pc = "loop" /\ producer.i < producer.num_transactions
    /\ ~chan.receiver
    /\ producer' = [producer EXCEPT !.pc = "exited"]
    /\ chan' = [chan EXCEPT !.sender = FALSE]
    /\ UNCHANGED <<positions, clock, call, run, scanned, exec, storeAtRecv, committed,
                   pure, hist,
                   tasks, lock, refreshedAt>>

\* the loop is over: start_simulation returns Ok(()), the task ends and the
\* streamer with its sender is dropped, which closes the channel
StreamerExit ==
    /\ producer.pc = "loop" /\ producer.i = producer.num_transactions
    /\ producer' = [producer EXCEPT !.pc = "exited"]
    /\ chan' = [chan EXCEPT !.sender = FALSE]
    /\ UNCHANGED <<positions, clock, call, run, scanned, exec, storeAtRecv, committed,
                   pure, hist,
                   tasks, lock, refreshedAt>>

\* rx.recv() yields the oldest buffered event: processed += 1 and
\* process_transaction starts
RecvQueued ==
    /\ run.mode = "backtest" /\ run.pc = "recv"
    /\ chan.receiver /\ chan.buffer # <<>>
    /\ LET got == Dequeue(chan.buffer)
       IN  /\ ProcessTransaction(got.tx, ProtocolAddress)
           /\ chan' = [chan EXCEPT !.buffer = got.rest]
           /\ hist' = [hist EXCEPT !.taken = Append(@, got.tx.nonce)]
    /\ run' = [run EXCEPT !.processed = @ + 1, !.pc = "detect"]
    /\ storeAtRecv' = positions
    /\ UNCHANGED <<positions, scanned, exec, committed, pure, producer,
                   tasks, lock, refreshedAt>>

\* rx.recv() yields None, the buffer being empty and the sender dropped: the
\* loop ends and streamer_handle is awaited
RecvClosed ==
    /\ run.mode = "backtest" /\ run.pc = "recv"
    /\ chan.receiver /\ chan.buffer = <<>> /\ ~chan.sender
    /\ run' = [run EXCEPT !.pc = "join"]
    /\ UNCHANGED <<positions, clock, call, scanned, exec, storeAtRecv, committed, pure,
                   chan, producer, hist,
                   tasks, lock, refreshedAt>>

\* streamer_handle.await completes, the task having ended: Ok(aggregate_metrics)
JoinStreamer ==
    /\ run.pc = "join"
    /\ producer.pc = "exited"
    /\ run' = [run EXCEPT !.pc = "done"]
    /\ UNCHANGED <<positions, clock, call, scanned, exec, storeAtRecv, committed, pure,
                   chan, producer, hist,
                   tasks, lock, refreshedAt>>

NextStream ==
    \/ SpawnStreamer \/ Send \/ SendFails \/ StreamerExit
    \/ RecvQueued \/ RecvClosed \/ JoinStreamer
    \/ LookupOk \/ LookupErr \/ WriteStore \/ CheckLiquidation
    \/ NoSignal \/ GotSignal \/ Simulated \/ SimulationPanics \/ LoopBack
    \/ ReturnRun

----------------------------------------------------------------------------
(* scan_all_positions, clear_positions and the executor.                   *)

\* the orders in which positions.iter() may visit the keys
IterationOrders(store) ==
    {order \in [1..Cardinality(DOMAIN store) -> DOMAIN store] :
        \A i, j \in DOMAIN order : i # j => order[i] # order[j]}

\* the loop of scan_all_positions over `order`, the clock last read at t:
\* every (signals, clock) it may end with
RECURSIVE ScanLoop(_, _, _)
ScanLoop(order, store, t) ==
    IF order = <<>> THEN {[signals |-> <<>>, clock |-> t]}
    ELSE IF ~IsLiquidatable(store[Head(order)])
    THEN ScanLoop(Tail(order), store, t)
    ELSE UNION {
           {[signals |->
                <<LiquidationSignal(Head(order), store[Head(order)],
                                    mark_signal(LatencyMetrics_new(t0), t1))>>
                \o rest.signals,
             clock |-> rest.clock] : rest \in ScanLoop(Tail(order), store, t1)}
           : <<t0, t1>> \in {<<a, b>> \in Now(t) \X (t..MaxClock) : b \in Now(a)}}

scan_all_positions ==
    /\ Quiet
    /\ \E order \in IterationOrders(positions) :
       \E out \in ScanLoop(order, positions, clock) :
          /\ scanned' = out.signals
          /\ clock' = out.clock
    /\ UNCHANGED <<positions, call, run, exec, storeAtRecv, committed, pure,
                   chan, producer, hist,
                   tasks, lock, refreshedAt>>

clear_positions ==
    /\ Quiet
    /\ positions' = <<>>
    /\ committed' = <<>>
    /\ refreshedAt' = <<>>
    /\ hist' = [hist EXCEPT !.fetched = <<>>]
    /\ UNCHANGED <<clock, call, run, scanned, exec, storeAtRecv, pure,
                   chan, producer, tasks, lock>>

IdleExec == [pc |-> "idle", metrics |-> LatencyMetrics_new(0), result |-> "none"]

\* execute_liquidation(signal, simulation, metrics) for a scanned signal, up to
\* the await in build_liquidation_transaction; without a wallet it returns Err
ExecuteLiquidation ==
    /\ run.pc = "none" /\ exec.pc = "idle"
    /\ \E i \in DOMAIN scanned, wallet \in BOOLEAN :
          exec' = IF wallet
                  THEN [pc |-> "gas", metrics |-> scanned[i].metrics, result |-> "none"]
                  ELSE [pc |-> "done", metrics |-> scanned[i].metrics, result |-> "Err"]
    /\ UNCHANGED <<positions, clock, call, run, scanned, storeAtRecv, committed, pure,
                   chan, producer, hist,
                   tasks, lock, refreshedAt>>

\* get_gas_price failed: build_liquidation_transaction's `?` returns Err
ExecGasErr ==
    /\ exec.pc = "gas"
    /\ exec' = [exec EXCEPT !.pc = "done", !.result = "Err"]
    /\ UNCHANGED <<positions, clock, call, run, scanned, storeAtRecv, committed, pure,
                   chan, producer, hist,
                   tasks, lock, refreshedAt>>

\* the transaction is built: mark_constructed, mark_sent, Ok(mock_hash)
ExecGasOk ==
    /\ exec.pc = "gas"
    /\ \E t1 \in Now(clock) : \E t2 \in Now(t1) :
          /\ exec' = [exec EXCEPT !.pc = "done", !.result = "Ok",
                                  !.metrics = mark_sent(mark_constructed(@, t1), t2)]
          /\ clock' = t2
    /\ UNCHANGED <<positions, call, run, scanned, storeAtRecv, committed, pure,
                   chan, producer, hist,
                   tasks, lock, refreshedAt>>

\* the caller drops the result
ExecReturn ==
    /\ exec.pc = "done"
    /\ exec' = IdleExec
    /\ UNCHANGED <<positions, clock, call, run, scanned, storeAtRecv, committed, pure,
                   chan, producer, hist,
                   tasks, lock, refreshedAt>>

\* the caller drops the signals of the last scan
DropScanned ==
    /\ exec.pc = "idle"
    /\ scanned # <<>>
    /\ scanned' = <<>>
    /\ UNCHANGED <<positions, clock, call, run, exec, storeAtRecv, committed, pure,
                   chan, producer, hist,
                   tasks, lock, refreshedAt>>

----------------------------------------------------------------------------
(* The specification of the pipeline.                                      *)

NoPure == [op |-> "none"]

Init ==
    /\ positions = <<>>
    /\ clock = 0
    /\ call = IdleCall
    /\ run = NoRun
    /\ scanned = <<>>
    /\ exec = IdleExec
    /\ storeAtRecv = <<>>
    /\ committed = <<>>
    /\ pure = NoPure
    /\ chan = NoChan
    /\ producer = IdleProducer
    /\ hist = NoHist
    /\ tasks = NoTasks
    /\ lock = Unlocked
    /\ refreshedAt = <<>>

Next ==
    \/ StartBacktest \/ Recv \/ LookupOk \/ LookupErr \/ WriteStore
    \/ CheckLiquidation \/ NoSignal \/ GotSignal \/ Simulated \/ EndBacktest
    \/ StartStress \/ StressIter \/ StressSimulated \/ EndStress
    \/ scan_all_positions \/ clear_positions
    \/ ExecuteLiquidation \/ ExecGasErr \/ ExecGasOk \/ ExecReturn
    \/ ReturnRun \/ DropScanned \/ LoopBack \/ StressLoopBack
    \/ SimulationPanics \/ StressPanics

Spec == Init /\ [][Next]_vars

\* run_backtest fed by its streamer through the channel
SpecStream == Init /\ [][NextStream]_vars

\* the same under the scheduling of the runtime: a task that can take a step
\* takes it, and an awaited call returns or panics
SpecStreamFair == SpecStream /\ WF_vars(NextStream)

----------------------------------------------------------------------------
(* classify_transaction as a function of the call data alone.              *)

\* amounts the encoders are given
Amounts == {0, 1, 1000}

Selectors ==
    {<<208, 227, 13, 176>>, <<197, 235, 234, 236>>, <<46, 26, 125, 77>>,
     <<55, 31, 216, 230>>, <<38, 205, 190, 26>>, <<222, 173, 190, 239>>}

\* what may follow the first four bytes
Suffixes == {<<>>, <<0>>, <<255, 255>>, BigEndian(1, 32)}

\* `bytes` with the byte at position i replaced by b
WithByte(bytes, i, b) == [bytes EXCEPT ![i] = b]

\* call data built by hand: selectors cut short, selectors with one byte
\* changed, each followed by a suffix
RawInputs ==
    {SubSeq(sel, 1, n) : sel \in Selectors, n \in 0..3}
    \cup {sel \o suffix : sel \in Selectors, suffix \in Suffixes}
    \cup {WithByte(sel, i, b) \o suffix :
            sel \in Selectors, i \in 1..4, b \in {0, 255}, suffix \in Suffixes}

\* call data built by the encoders of the streamer and the executor
EncodedInputs ==
    {[kind |-> "Deposit", input |-> encode_deposit_call]}
    \cup {[kind |-> "Borrow", input |-> encode_borrow_call(a)] : a \in Amounts}
    \cup {[kind |-> "Withdraw", input |-> encode_withdraw_call(a)] : a \in Amounts}
    \cup {[kind |-> "Repay", input |-> encode_repay_call(a)] : a \in Amounts}
    \cup {[kind |-> "Liquidate", input |-> encode_liquidate_call(u, a)] :
            u \in Users, a \in Amounts}

ClassifyInputs ==
    EncodedInputs \cup {[kind |-> "raw", input |-> bytes] : bytes \in RawInputs}

TxWithInput(bytes) == [NoTx EXCEPT !.input = bytes]

InitClassify ==
    /\ positions = <<>>
    /\ clock = 0
    /\ call = IdleCall
    /\ run = NoRun
    /\ scanned = <<>>
    /\ exec = IdleExec
    /\ storeAtRecv = <<>>
    /\ committed = <<>>
    /\ chan = NoChan
    /\ producer = IdleProducer
    /\ hist = NoHist
    /\ tasks = NoTasks
    /\ lock = Unlocked
    /\ refreshedAt = <<>>
    /\ \E arg \in ClassifyInputs :
          pure = [op |-> "classify", kind |-> arg.kind, input |-> arg.input,
                  done |-> FALSE, out |-> None, out4 |-> None]

\* classify_transaction on the call data, and on its first four bytes alone
Classify ==
    /\ pure.op = "classify" /\ ~pure.done
    /\ pure' = [pure EXCEPT
                  !.done = TRUE,
                  !.out = classify_transaction(TxWithInput(pure.input)),
                  !.out4 = classify_transaction(
                               TxWithInput(SubSeq(pure.input, 1,
                                                  Min(4, Len(pure.input)))))]
    /\ UNCHANGED <<positions, clock, call, run, scanned, exec, storeAtRecv, committed,
                 chan, producer, hist,
                   tasks, lock, refreshedAt>>

SpecClassify == InitClassify /\ [][Classify]_vars

----------------------------------------------------------------------------
(* LatencyMetrics and AggregateMetrics as data: any checkpoints a           *)
(* monotonic clock can give, any sequence of record_attempt calls, and the  *)
(* queries on them, each asked once of the aggregate as it then is.         *)

\* the instants of the checkpoints drawn are from 0..MaxInstant
MaxInstant == 2
\* record_attempt is called while fewer than MaxRows rows are recorded
MaxRows == 2
\* aggregates of 1..MaxLadder rows with the decode latencies 1, 2, ..
MaxLadder == 50

Instants == 0..MaxInstant
OptionInstants == {None} \cup {Some(t) : t \in Instants}

\* the checkpoints that are set were read, in the order of the marks, from
\* a clock that does not go back
ClockOrdered(m) ==
    LET marks == <<Some(m.t_received), m.t_decoded, m.t_signal, m.t_simulated,
                   m.t_constructed, m.t_sent>>
    IN  \A i, j \in 1..6 :
            (i < j /\ marks[i] # None /\ marks[j] # None) => marks[i][1] <= marks[j][1]

MetricInputs ==
    {m \in [t_received : Instants, t_decoded : OptionInstants,
            t_signal : OptionInstants, t_simulated : OptionInstants,
            t_constructed : OptionInstants, t_sent : OptionInstants] :
        ClockOrdered(m)}

\* the metrics record_attempt is given: nothing marked, decoded after 1 and
\* after 2, and every stage marked
SampleMetrics ==
    {LatencyMetrics_new(0),
     mark_decoded(LatencyMetrics_new(0), 1),
     mark_decoded(LatencyMetrics_new(0), 2),
     mark_sent(mark_constructed(mark_simulated(mark_signal(
         mark_decoded(LatencyMetrics_new(0), 0), 1), 1), 2), 2)}

\* the names get_all_latencies uses, and one it does not
MetricNames ==
    {"decode_us", "signal_detection_us", "simulation_us", "construction_us",
     "end_to_end_us", "queue_us"}

\* the percentiles asked for: every fifth, those next to a change of rank
\* in a short list, and 58
Percents ==
    {pct \in 0..100 : pct % 5 = 0} \cup {1, 33, 34, 58, 66, 67, 99}

\* what n failed attempts leave, the k-th with the decode latency n + 1 - k
Ladder(n) ==
    [total_attempts |-> n, successful_liquidations |-> 0,
     failed_liquidations |-> n,
     latencies |->
         [k \in 1..n |->
             get_all_latencies(mark_decoded(LatencyMetrics_new(0), n + 1 - k))]]

InitMetrics ==
    /\ positions = <<>>
    /\ clock = 0
    /\ call = IdleCall
    /\ run = NoRun
    /\ scanned = <<>>
    /\ exec = IdleExec
    /\ storeAtRecv = <<>>
    /\ committed = <<>>
    /\ chan = NoChan
    /\ producer = IdleProducer
    /\ hist = NoHist
    /\ tasks = NoTasks
    /\ lock = Unlocked
    /\ refreshedAt = <<>>
    /\ \E agg \in {AggregateMetrics_new} \cup {Ladder(n) : n \in 1..MaxLadder} :
          pure = [op |-> "metrics", agg |-> agg, last |-> None, query |-> None]

\* aggregate_metrics.record_attempt(&metrics, success)
RecordAttempt ==
    /\ pure.op = "metrics" /\ pure.query = None
    /\ pure.agg.total_attempts < MaxRows
    /\ \E m \in SampleMetrics, success \in BOOLEAN :
          pure' = [pure EXCEPT
                      !.agg = record_attempt(@, m, success),
                      !.last = Some([metrics |-> m, success |-> success])]
    /\ UNCHANGED <<positions, clock, call, run, scanned, exec, storeAtRecv, committed,
                   chan, producer, hist,
                   tasks, lock, refreshedAt>>

\* metrics.get_all_latencies(), asked while nothing is recorded
GetAllLatencies ==
    /\ pure.op = "metrics" /\ pure.query = None
    /\ pure.agg = AggregateMetrics_new
    /\ \E m \in MetricInputs :
          pure' = [pure EXCEPT !.query =
                      Some([kind |-> "latencies", m |-> m,
                            out |-> get_all_latencies(m)])]
    /\ UNCHANGED <<positions, clock, call, run, scanned, exec, storeAtRecv, committed,
                   chan, producer, hist,
                   tasks, lock, refreshedAt>>

\* aggregate_metrics.percentile(metric_name, percentile)
Percentile ==
    /\ pure.op = "metrics" /\ pure.query = None
    /\ \E name \in MetricNames, pct \in Percents :
          pure' = [pure EXCEPT !.query =
                      Some([kind |-> "percentile", name |-> name, pct |-> pct,
                            out |-> percentile(pure.agg, name, pct)])]
    /\ UNCHANGED <<positions, clock, call, run, scanned, exec, storeAtRecv, committed,
                   chan, producer, hist,
                   tasks, lock, refreshedAt>>

\* aggregate_metrics.mean(metric_name)
Mean ==
    /\ pure.op = "metrics" /\ pure.query = None
    /\ \E name \in MetricNames :
          pure' = [pure EXCEPT !.query =
                      Some([kind |-> "mean", name |-> name,
                            out |-> mean(pure.agg, name)])]
    /\ UNCHANGED <<positions, clock, call, run, scanned, exec, storeAtRecv, committed,
                   chan, producer, hist,
                   tasks, lock, refreshedAt>>

NextMetrics == RecordAttempt \/ GetAllLatencies \/ Percentile \/ Mean

SpecMetrics == InitMetrics /\ [][NextMetrics]_vars

----------------------------------------------------------------------------
(* The detector called by several tasks at once.  Each task calls          *)
(* process_transaction, scan_all_positions, get_position_count or          *)
(* clear_positions; the store is reached through the guards of its RwLock, *)
(* whose write() returns a guard when no guard is held and whose read()    *)
(* returns one when no write guard is held.                                *)

Tasks == {1, 2, 3}

\* what get_position returns to these tasks
TaskChainPositions ==
    {<<5, 8, LIQUIDATION_THRESHOLD - 1>>, <<0, 8, LIQUIDATION_THRESHOLD>>}

IdleTask ==
    [op |-> "none", pc |-> "idle", user |-> 0, fetched |-> None,
     seen |-> <<>>, remaining |-> <<>>, result |-> None]

\* CanWrite gone wrong: a write guard is given while read guards are held
CanWrite_among_readers(l) == l.writer = {}

\* positions.write().await returns
CanWrite(l) == l.writer = {} /\ l.readers = {}

\* positions.read().await returns
CanRead(l) == l.writer = {}

\* ScanVisit gone wrong: a Signal for every account visited
ScanVisit_every_account(signals, user, position, metrics) ==
    Append(signals, LiquidationSignal(user, position, metrics))

\* the body of the loop of scan_all_positions for one entry of the map
ScanVisit(signals, user, position, metrics) ==
    IF IsLiquidatable(position)
    THEN Append(signals, LiquidationSignal(user, position, metrics))
    ELSE signals

\* a task calls process_transaction with a Deposit, Withdraw, Borrow or
\* Repay event sent by `user`; get_position has returned Ok and
\* update_position awaits positions.write()
TaskProcess(t) ==
    /\ tasks[t].pc = "idle"
    /\ \E user \in Users, p \in TaskChainPositions :
          tasks' = [tasks EXCEPT ![t] =
                      [IdleTask EXCEPT !.op = "process_transaction",
                                       !.pc = "write_wait", !.user = user,
                                       !.fetched = Some(p)]]
    /\ UNCHANGED <<positions, clock, call, run, scanned, exec, storeAtRecv, committed,
                   pure, chan, producer, hist, lock, refreshedAt>>

\* a task calls clear_positions: positions.write() is awaited
TaskClear(t) ==
    /\ tasks[t].pc = "idle"
    /\ tasks' = [tasks EXCEPT ![t] =
                    [IdleTask EXCEPT !.op = "clear_positions", !.pc = "write_wait"]]
    /\ UNCHANGED <<positions, clock, call, run, scanned, exec, storeAtRecv, committed,
                   pure, chan, producer, hist, lock, refreshedAt>>

\* positions.write().await returns the write guard
AcquireWrite(t) ==
    /\ tasks[t].pc = "write_wait"
    /\ CanWrite(lock)
    /\ lock' = [lock EXCEPT !.writer = {t}]
    /\ tasks' = [tasks EXCEPT ![t].pc = "writing"]
    /\ UNCHANGED <<positions, clock, call, run, scanned, exec, storeAtRecv, committed,
                   pure, chan, producer, hist, refreshedAt>>

\* update_position: positions.insert(user, position)
TaskInsert(t) ==
    /\ tasks[t].pc = "writing" /\ tasks[t].op = "process_transaction"
    /\ LET p == tasks[t].fetched[1]
       IN  positions' = Upsert(positions, tasks[t].user,
                               UserPosition(p[1], p[2], p[3], UnixSeconds))
    /\ tasks' = [tasks EXCEPT ![t].pc = "written"]
    /\ UNCHANGED <<clock, call, run, scanned, exec, storeAtRecv, committed, pure,
                   chan, producer, hist, lock, refreshedAt>>

\* clear_positions: positions.clear()
TaskClearMap(t) ==
    /\ tasks[t].pc = "writing" /\ tasks[t].op = "clear_positions"
    /\ positions' = <<>>
    /\ tasks' = [tasks EXCEPT ![t].pc = "written"]
    /\ UNCHANGED <<clock, call, run, scanned, exec, storeAtRecv, committed, pure,
                   chan, producer, hist, lock, refreshedAt>>

\* the write guard is dropped at the end of update_position, and
\* process_transaction goes on to await positions.read() in
\* check_liquidation; or at the end of clear_positions, which returns
ReleaseWrite(t) ==
    /\ tasks[t].pc = "written"
    /\ lock' = [lock EXCEPT !.writer = @ \ {t}]
    /\ tasks' = [tasks EXCEPT ![t] =
                    IF tasks[t].op = "clear_positions" THEN IdleTask
                    ELSE [@ EXCEPT !.pc = "read_wait"]]
    /\ UNCHANGED <<positions, clock, call, run, scanned, exec, storeAtRecv, committed,
                   pure, chan, producer, hist, refreshedAt>>

\* a task calls scan_all_positions: positions.read() is awaited
TaskScan(t) ==
    /\ tasks[t].pc = "idle"
    /\ tasks' = [tasks EXCEPT ![t] =
                    [IdleTask EXCEPT !.op = "scan_all_positions", !.pc = "read_wait"]]
    /\ UNCHANGED <<positions, clock, call, run, scanned, exec, storeAtRecv, committed,
                   pure, chan, producer, hist, lock, refreshedAt>>

\* a task calls get_position_count: positions.read() is awaited
TaskCount(t) ==
    /\ tasks[t].pc = "idle"
    /\ tasks' = [tasks EXCEPT ![t] =
                    [IdleTask EXCEPT !.op = "get_position_count", !.pc = "read_wait"]]
    /\ UNCHANGED <<positions, clock, call, run, scanned, exec, storeAtRecv, committed,
                   pure, chan, producer, hist, lock, refreshedAt>>

\* positions.read().await returns a read guard; scan_all_positions starts
\* positions.iter(), in whatever order the map gives, with no Signal yet
AcquireRead(t) ==
    /\ tasks[t].pc = "read_wait"
    /\ CanRead(lock)
    /\ lock' = [lock EXCEPT !.readers = @ \cup {t}]
    /\ \E order \in IterationOrders(positions) :
          tasks' = [tasks EXCEPT
                      ![t].pc = "reading", ![t].seen = positions,
                      ![t].remaining = IF tasks[t].op = "scan_all_positions"
                                       THEN order ELSE <<>>,
                      ![t].result = IF tasks[t].op = "scan_all_positions"
                                    THEN Some(<<>>) ELSE None]
    /\ UNCHANGED <<positions, clock, call, run, scanned, exec, storeAtRecv, committed,
                   pure, chan, producer, hist, refreshedAt>>

\* check_liquidation: positions.get(&user) cloned
TaskGet(t) ==
    /\ tasks[t].pc = "reading" /\ tasks[t].op = "process_transaction"
    /\ tasks' = [tasks EXCEPT ![t].pc = "read_done",
                              ![t].result = Some(Get(positions, tasks[t].user))]
    /\ UNCHANGED <<positions, clock, call, run, scanned, exec, storeAtRecv, committed,
                   pure, chan, producer, hist, lock, refreshedAt>>

\* scan_all_positions: one turn of the loop over positions.iter(); after
\* the last the Vec is what is returned
TaskScanStep(t) ==
    /\ tasks[t].pc = "reading" /\ tasks[t].op = "scan_all_positions"
    /\ LET user == Head(tasks[t].remaining)
           last == Len(tasks[t].remaining) <= 1
       IN  IF tasks[t].remaining = <<>> \/ user \notin DOMAIN positions
           THEN /\ tasks' = [tasks EXCEPT
                        ![t].pc = IF last THEN "read_done" ELSE @,
                        ![t].remaining = IF @ = <<>> THEN @ ELSE Tail(@)]
                /\ clock' = clock
           ELSE \E t0 \in Now(clock) : \E t1 \in Now(t0) :
                /\ tasks' = [tasks EXCEPT
                        ![t].pc = IF last THEN "read_done" ELSE @,
                        ![t].remaining = Tail(@),
                        ![t].result =
                            Some(ScanVisit(@[1], user, positions[user],
                                           mark_signal(LatencyMetrics_new(t0), t1)))]
                /\ clock' = IF IsLiquidatable(positions[user]) THEN t1 ELSE clock
    /\ UNCHANGED <<positions, call, run, scanned, exec, storeAtRecv, committed, pure,
                   chan, producer, hist, lock, refreshedAt>>

\* get_position_count: positions.len()
TaskLen(t) ==
    /\ tasks[t].pc = "reading" /\ tasks[t].op = "get_position_count"
    /\ tasks' = [tasks EXCEPT ![t].pc = "read_done",
                              ![t].result = Some(get_position_count(positions))]
    /\ UNCHANGED <<positions, clock, call, run, scanned, exec, storeAtRecv, committed,
                   pure, chan, producer, hist, lock, refreshedAt>>

\* the read guard is dropped and the call returns; what process_transaction
\* makes of the clone it holds is in CheckLiquidation
ReleaseRead(t) ==
    /\ tasks[t].pc = "read_done"
    /\ lock' = [lock EXCEPT !.readers = @ \ {t}]
    /\ tasks' = [tasks EXCEPT ![t] = IdleTask]
    /\ UNCHANGED <<positions, clock, call, run, scanned, exec, storeAtRecv, committed,
                   pure, chan, producer, hist, refreshedAt>>

\* the tasks run within one tick of the clock, its last
InitLock ==
    /\ positions = <<>>
    /\ clock = MaxClock
    /\ call = IdleCall
    /\ run = NoRun
    /\ scanned = <<>>
    /\ exec = IdleExec
    /\ storeAtRecv = <<>>
    /\ committed = <<>>
    /\ pure = NoPure
    /\ chan = NoChan
    /\ producer = IdleProducer
    /\ hist = NoHist
    /\ tasks = [t \in Tasks |-> IdleTask]
    /\ lock = Unlocked
    /\ refreshedAt = <<>>

NextLock ==
    \E t \in Tasks :
        \/ TaskProcess(t) \/ TaskClear(t) \/ TaskScan(t) \/ TaskCount(t)
        \/ AcquireWrite(t) \/ TaskInsert(t) \/ TaskClearMap(t) \/ ReleaseWrite(t)
        \/ AcquireRead(t) \/ TaskGet(t) \/ TaskScanStep(t) \/ TaskLen(t)
        \/ ReleaseRead(t)

SpecLock == InitLock /\ [][NextLock]_vars

----------------------------------------------------------------------------
(* The simulator, one call of simulate_liquidation at a time, a step per   *)
(* await; quick_profitability_check and optimize_debt_amount on the same   *)
(* signal.  The build is part of the inputs: with overflow checks or not.  *)

\* 10^17, 8000 * 10^18, and amounts beyond u128 and beyond what a U256
\* product with 10^18 holds
Debts ==
    {<<>>, ToBits(8), Mul(ToBits(100000000), E9), Mul(ToBits(8000), E18),
     Shl(<<1>>, 130), Shl(<<1>>, 200)}

Collaterals == {Mul(ToBits(5), E18), Shl(<<1>>, U128_BITS)}

Thresholds == {Whole(0), Whole(10)}

GasEstimates ==
    {GasErr, GasOk(ToBits(FALLBACK_GAS)), GasOk(Shl(<<1>>, 200))}

GasPrices ==
    {GasErr, GasOk(<<>>), GasOk(Mul(ToBits(FALLBACK_GWEI), E9)),
     GasOk(Shl(<<1>>, 100))}

InitSimulate ==
    /\ positions = <<>>
    /\ clock = 0
    /\ call = IdleCall
    /\ run = NoRun
    /\ scanned = <<>>
    /\ exec = IdleExec
    /\ storeAtRecv = <<>>
    /\ committed = <<>>
    /\ chan = NoChan
    /\ producer = IdleProducer
    /\ hist = NoHist
    /\ tasks = NoTasks
    /\ lock = Unlocked
    /\ refreshedAt = <<>>
    /\ \E debt \in Debts, collateral \in Collaterals, threshold \in Thresholds,
          overflow_checks \in BOOLEAN :
          pure = [op |-> "simulate", pc |-> "start",
                  overflow_checks |-> overflow_checks,
                  min_profit_threshold |-> threshold,
                  signal |-> [user |-> 1, collateral |-> collateral,
                              debt |-> debt, health_factor |-> ToBits(80)],
                  estimate |-> None, price |-> None,
                  debt_to_cover |-> <<>>, collateral_value |-> <<>>,
                  collateral_to_seize |-> <<>>, gas_estimate |-> <<>>,
                  gas_cost_usd |-> Whole(0),
                  result |-> None, quick |-> None, optimized |-> None]

\* simulate_liquidation(&signal) up to estimate_gas_liquidation(..).await
SimulateSeize ==
    /\ pure.op = "simulate" /\ pure.pc = "start"
    /\ LET seized == Seize(pure.signal, pure.overflow_checks)
       IN  pure' = IF seized.panicked THEN [pure EXCEPT !.pc = "panicked"]
                   ELSE [pure EXCEPT
                           !.pc = "estimate_gas",
                           !.debt_to_cover = seized.debt_to_cover,
                           !.collateral_value = seized.collateral_value,
                           !.collateral_to_seize = seized.collateral_to_seize]
    /\ UNCHANGED <<positions, clock, call, run, scanned, exec, storeAtRecv,
                   committed, chan, producer, hist, tasks, lock, refreshedAt>>

\* estimate_gas_liquidation answers, up to get_gas_price().await
SimulateGasEstimate ==
    /\ pure.op = "simulate" /\ pure.pc = "estimate_gas"
    /\ \E answer \in GasEstimates :
          pure' = [pure EXCEPT !.pc = "gas_price",
                               !.estimate = Some(answer),
                               !.gas_estimate = GasEstimate(answer)]
    /\ UNCHANGED <<positions, clock, call, run, scanned, exec, storeAtRecv,
                   committed, chan, producer, hist, tasks, lock, refreshedAt>>

\* get_gas_price answers: the gas cost
SimulateGasPrice ==
    /\ pure.op = "simulate" /\ pure.pc = "gas_price"
    /\ \E answer \in GasPrices :
          LET cost == GasCost(pure.gas_estimate, GasPrice(answer))
          IN  pure' = IF cost.panicked
                      THEN [pure EXCEPT !.pc = "panicked", !.price = Some(answer)]
                      ELSE [pure EXCEPT !.pc = "profit",
                                        !.price = Some(answer),
                                        !.gas_cost_usd = cost.gas_cost_usd]
    /\ UNCHANGED <<positions, clock, call, run, scanned, exec, storeAtRecv,
                   committed, chan, producer, hist, tasks, lock, refreshedAt>>

\* the profit, and Ok(SimulationResult { .. })
SimulateProfit ==
    /\ pure.op = "simulate" /\ pure.pc = "profit"
    /\ LET profit == Profit(pure, pure.min_profit_threshold)
       IN  pure' = IF profit.panicked THEN [pure EXCEPT !.pc = "panicked"]
                   ELSE [pure EXCEPT !.pc = "returned",
                                     !.result = Some(profit.result)]
    /\ UNCHANGED <<positions, clock, call, run, scanned, exec, storeAtRecv,
                   committed, chan, producer, hist, tasks, lock, refreshedAt>>

\* quick_profitability_check(&signal)
QuickCheck ==
    /\ pure.op = "simulate" /\ pure.quick = None
    /\ pure' = [pure EXCEPT
                  !.quick = Some(quick_profitability_check(
                                     pure.signal, pure.min_profit_threshold))]
    /\ UNCHANGED <<positions, clock, call, run, scanned, exec, storeAtRecv,
                   committed, chan, producer, hist, tasks, lock, refreshedAt>>

\* optimize_debt_amount(&signal).await
OptimizeDebt ==
    /\ pure.op = "simulate" /\ pure.optimized = None
    /\ pure' = [pure EXCEPT !.optimized = Some(optimize_debt_amount(pure.signal))]
    /\ UNCHANGED <<positions, clock, call, run, scanned, exec, storeAtRecv,
                   committed, chan, producer, hist, tasks, lock, refreshedAt>>

NextSimulate ==
    \/ SimulateSeize
    \/ SimulateGasEstimate
    \/ SimulateGasPrice
    \/ SimulateProfit
    \/ QuickCheck
    \/ OptimizeDebt

SpecSimulate == InitSimulate /\ [][NextSimulate]_vars

----------------------------------------------------------------------------
(* Properties of the position store and the detector.                      *)

\* the event in flight is one of Deposit, Withdraw, Borrow, Repay
PositionEvent ==
    call.tx_type \in {Some("Deposit"), Some("Withdraw"), Some("Borrow"), Some("Repay")}

\* C1: once update_position has succeeded for an account, the snapshot stored
\* for it, and the one check_liquidation reads, hold the collateral, debt and
\* health factor of that one lookup; every stored snapshot is the whole triple
\* of one lookup.
C1_SnapshotIsOneLookup ==
    /\ \A a \in DOMAIN positions :
          a \in DOMAIN committed /\ Triple(positions[a]) = committed[a]
    /\ call.refresh = "ok" =>
          /\ call.user \in DOMAIN positions
          /\ Triple(positions[call.user]) = call.fetched[1]
    /\ (call.refresh = "ok" /\ call.pc = "returned" /\ PositionEvent) =>
          /\ call.read # None
          /\ Triple(call.read[1]) = call.fetched[1]

\* a tracked account has been refreshed with a lookup that differs from its old
\* snapshot in collateral, debt and health factor
C1_Witness ==
    /\ call.pc = "returned" /\ call.refresh = "ok" /\ call.read # None
    /\ call.user \in DOMAIN storeAtRecv
    /\ storeAtRecv[call.user].collateral # call.fetched[1][1]
    /\ storeAtRecv[call.user].debt # call.fetched[1][2]
    /\ storeAtRecv[call.user].health_factor # call.fetched[1][3]

\* C2: a Deposit, Withdraw, Borrow or Repay event whose refresh succeeds with
\* health_factor < 100 and debt > 0 returns Ok(Some(signal)); the signal's user is
\* the sender and its values are those the refresh wrote.
C2_SignalCarriesRefresh ==
    (/\ call.pc = "returned" /\ PositionEvent /\ call.refresh = "ok"
     /\ call.fetched[1][3] < 100 /\ call.fetched[1][2] > 0)
    => /\ ~call.result.error
       /\ call.result.signal # None
       /\ call.result.signal[1].user = call.tx.from
       /\ Triple(call.result.signal[1]) = call.fetched[1]
       /\ Triple(call.result.signal[1]) = Triple(positions[call.tx.from])

\* a signal for an account that was tracked and healthy before the event
C2_Witness ==
    /\ call.pc = "returned" /\ call.result.signal # None
    /\ call.user \in DOMAIN storeAtRecv
    /\ storeAtRecv[call.user].health_factor >= 100
    /\ call.result.signal[1].collateral = 5

\* C3: an event whose refreshed position has health_factor >= 100 or debt = 0
\* returns no signal, whatever the collateral and the account's state before.
C3_NoSignalWhenHealthy ==
    (/\ call.pc = "returned" /\ call.refresh = "ok"
     /\ (call.fetched[1][3] >= 100 \/ call.fetched[1][2] = 0))
    => call.result = Ok(None)

\* an account that was liquidatable before is refreshed to health factor 100
\* with debt, and no signal is returned
C3_Witness ==
    /\ call.pc = "returned" /\ call.refresh = "ok" /\ PositionEvent
    /\ call.user \in DOMAIN storeAtRecv
    /\ storeAtRecv[call.user].health_factor < 100
    /\ storeAtRecv[call.user].debt > 0
    /\ call.fetched[1][3] = 100 /\ call.fetched[1][2] > 0
    /\ call.result.signal = None

\* C4: when the lookup fails on a Deposit, Withdraw, Borrow or Repay event, the
\* store is what it was when the event was received and the result is Ok(None).
C4_LookupFailureLeavesStore ==
    (call.pc = "returned" /\ PositionEvent /\ call.refresh = "err")
    => /\ positions = storeAtRecv
       /\ call.result = Ok(None)

\* the lookup failed for an account that has a snapshot
C4_Witness ==
    /\ call.pc = "returned" /\ PositionEvent /\ call.refresh = "err"
    /\ call.user \in DOMAIN positions

\* the selectors the classifier knows, as the hex strings of the source
KnownSelector(bytes) ==
    bytes \in {HexDecode(<<13, 0, 14, 3, 0, 13, 11, 0>>),
               HexDecode(<<12, 5, 14, 11, 14, 10, 14, 12>>),
               HexDecode(<<2, 14, 1, 10, 7, 13, 4, 13>>),
               HexDecode(<<3, 7, 1, 15, 13, 8, 14, 6>>),
               HexDecode(<<2, 6, 12, 13, 11, 14, 1, 10>>)}

\* the recipient is absent or not the protocol, or the payload is shorter than
\* 4 bytes or has an unrecognised selector
FastRejected(tx) ==
    \/ tx.to = None
    \/ tx.to # Some(ProtocolAddress)
    \/ Len(tx.input) < 4
    \/ ~KnownSelector(SubSeq(tx.input, 1, 4))

\* C5: such an event returns Ok(None) at once: no chain lookup, no access to the
\* position store, the store unchanged.
C5_FastReject ==
    (call.pc # "idle" /\ FastRejected(call.tx))
    => /\ call.pc = "returned"
       /\ call.result = Ok(None)
       /\ call.chainCalls = 0
       /\ call.storeAccess = 0
       /\ positions = storeAtRecv

\* an event to the protocol with an unrecognised selector is rejected while
\* the store holds a snapshot
C5_Witness ==
    /\ call.pc = "returned"
    /\ call.tx.to = Some(ProtocolAddress)
    /\ Len(call.tx.input) >= 4 /\ ~KnownSelector(SubSeq(call.tx.input, 1, 4))
    /\ positions # <<>>

\* C6: a Liquidate event never yields a signal, whether its refresh succeeds
\* or fails: the result is Ok(None) and check_liquidation is not reached.
C6_LiquidateNeverSignals ==
    call.tx_type = Some("Liquidate")
    => /\ call.result = Ok(None)
       /\ call.pc \in {"lookup", "write", "returned"}
       /\ call.read = None

\* a Liquidate event has refreshed a position that is liquidatable
C6_Witness ==
    /\ call.pc = "returned" /\ call.tx_type = Some("Liquidate")
    /\ call.refresh = "ok"
    /\ call.fetched[1][3] < 100 /\ call.fetched[1][2] > 0

\* the value of big-endian bytes
RECURSIVE FromBigEndian(_)
FromBigEndian(bytes) ==
    IF bytes = <<>> THEN 0
    ELSE 256 * FromBigEndian(SubSeq(bytes, 1, Len(bytes) - 1)) + bytes[Len(bytes)]

\* the `user` argument of liquidate(address,uint256) call data: the 32-byte
\* word after the selector
LiquidatedAccount(input) == FromBigEndian(SubSeq(input, 5, 36))

\* C7: on a Liquidate event the account refreshed in the store is the account
\* being liquidated, not the sender of the event.
C7_RefreshesLiquidatedAccount ==
    (call.tx_type = Some("Liquidate") /\ call.refresh = "ok")
    => /\ call.user = LiquidatedAccount(call.tx.input)
       /\ LiquidatedAccount(call.tx.input) \in DOMAIN positions
       /\ Triple(positions[LiquidatedAccount(call.tx.input)]) = call.fetched[1]

----------------------------------------------------------------------------
(* Properties of the classifier.                                           *)

\* the table of C8, on the hex strings it names
SelectorTable(bytes) ==
    IF Len(bytes) < 4 THEN None
    ELSE LET first4 == SubSeq(bytes, 1, 4) IN
         IF first4 = HexDecode(<<13, 0, 14, 3, 0, 13, 11, 0>>) THEN Some("Deposit")
         ELSE IF first4 = HexDecode(<<12, 5, 14, 11, 14, 10, 14, 12>>) THEN Some("Borrow")
         ELSE IF first4 = HexDecode(<<2, 14, 1, 10, 7, 13, 4, 13>>) THEN Some("Withdraw")
         ELSE IF first4 = HexDecode(<<3, 7, 1, 15, 13, 8, 14, 6>>) THEN Some("Repay")
         ELSE IF first4 = HexDecode(<<2, 6, 12, 13, 11, 14, 1, 10>>) THEN Some("Liquidate")
         ELSE None

\* C8: classify_transaction maps d0e30db0 to Deposit, c5ebeaec to Borrow,
\* 2e1a7d4d to Withdraw, 371fd8e6 to Repay, 26cdbe1a to Liquidate and everything
\* else, or fewer than 4 bytes, to None; the bytes after the fourth do not change
\* the result; the call data of each encoder classifies as the encoder's kind.
C8_ClassifyByFirstFourBytes ==
    pure.op = "classify" /\ pure.done
    => /\ pure.out = SelectorTable(pure.input)
       /\ pure.out = pure.out4
       /\ pure.kind # "raw" => pure.out = Some(pure.kind)

\* the executor's liquidate call data, 68 bytes, classified as Liquidate
C8_Witness ==
    /\ pure.op = "classify" /\ pure.done
    /\ pure.kind = "Liquidate" /\ Len(pure.input) = 68
    /\ pure.out = Some("Liquidate")

----------------------------------------------------------------------------
(* Properties of the latency checkpoints.                                  *)

\* the checkpoints of m that are set, in pipeline order
Checkpoints(m) ==
    <<Some(m.t_received), m.t_decoded, m.t_signal, m.t_simulated,
      m.t_constructed, m.t_sent>>

Monotone(m) ==
    \A i, j \in 1..6 :
        (i < j /\ Checkpoints(m)[i] # None /\ Checkpoints(m)[j] # None)
        => Checkpoints(m)[i][1] <= Checkpoints(m)[j][1]

\* every LatencyMetrics the state holds
AllMetrics ==
    {call.metrics, exec.metrics}
    \cup {sig.metrics : sig \in {call.result.signal[i] : i \in DOMAIN call.result.signal}}
    \cup {sig.metrics : sig \in {run.signal[i] : i \in DOMAIN run.signal}}
    \cup {run.metrics[i] : i \in DOMAIN run.metrics}
    \cup {scanned[i].metrics : i \in DOMAIN scanned}

\* C9: in every LatencyMetrics of the detector, the two harness loops,
\* scan_all_positions and the executor, the checkpoints that are set satisfy
\* received <= decoded <= signal <= simulated <= constructed <= sent.
C9_CheckpointsMonotone == \A m \in AllMetrics : Monotone(m)

\* a signal of the streaming harness with all six checkpoints set, the clock
\* having advanced between received and sent
C9_Witness ==
    /\ run.mode = "backtest" /\ run.pc = "recorded"
    /\ \A i \in 1..6 : Checkpoints(run.signal[1].metrics)[i] # None
    /\ run.signal[1].metrics.t_received < run.signal[1].metrics.t_sent[1]

\* C10 as stated: a second mark_signal leaves the time stored: the signal the
\* harness has marked again still holds the time the detector set.
C10_MarkIsIdempotent ==
    (run.mode = "backtest" /\ run.pc = "simulate")
    => run.signal[1].metrics.t_signal = call.result.signal[1].metrics.t_signal

\* C10 as the code has it: a mark stores the current time whether or not the
\* checkpoint is set.  The second mark_signal of process_transaction and the
\* mark_signal of the harness each store the clock just read, which is not
\* before the time check_liquidation stored.
C10_MarkOverwrites ==
    /\ (run.pc = "detect" /\ call.pc = "returned" /\ call.result.signal # None)
       => /\ call.metrics.t_signal = Some(clock)
          /\ call.result.signal[1].metrics.t_signal[1] <= clock
    /\ (run.mode = "backtest" /\ run.pc = "simulate")
       => /\ run.signal[1].metrics.t_signal = Some(clock)
          /\ call.result.signal[1].metrics.t_signal[1] <= clock

\* the harness has marked the signal at a later time than the detector did
C10_Witness ==
    /\ run.mode = "backtest" /\ run.pc = "simulate"
    /\ call.result.signal[1].metrics.t_signal[1]
           < run.signal[1].metrics.t_signal[1]

----------------------------------------------------------------------------
(* Properties of get_all_latencies and of AggregateMetrics.                *)

\* the query last asked in SpecMetrics, if it is of the kind given
Asked(kind) ==
    pure.op = "metrics" /\ pure.query # None /\ pure.query[1].kind = kind

\* C11: get_all_latencies holds a metric exactly when both of its endpoints
\* are set, its value the later endpoint minus the earlier: decode_us from
\* received to decoded, signal_detection_us from decoded to signal,
\* simulation_us from signal to simulated, construction_us from simulated to
\* constructed, end_to_end_us from received to sent; it holds no other key.
C11_LatenciesPresentIffEndpoints ==
    Asked("latencies") =>
        LET m == pure.query[1].m
            out == pure.query[1].out
            Holds(key, from, to) ==
                /\ (key \in DOMAIN out) <=> (from # None /\ to # None)
                /\ (key \in DOMAIN out) => out[key] = to[1] - from[1]
        IN  /\ DOMAIN out \subseteq
                   {"decode_us", "signal_detection_us", "simulation_us",
                    "construction_us", "end_to_end_us"}
            /\ Holds("decode_us", Some(m.t_received), m.t_decoded)
            /\ Holds("signal_detection_us", m.t_decoded, m.t_signal)
            /\ Holds("simulation_us", m.t_signal, m.t_simulated)
            /\ Holds("construction_us", m.t_simulated, m.t_constructed)
            /\ Holds("end_to_end_us", Some(m.t_received), m.t_sent)

\* get_all_latencies was asked of metrics with decoded and simulated set and
\* signal not: it answered with decode_us alone
C11_Witness ==
    /\ Asked("latencies")
    /\ pure.query[1].m.t_decoded = Some(1)
    /\ pure.query[1].m.t_signal = None
    /\ pure.query[1].m.t_simulated = Some(2)
    /\ pure.query[1].m.t_sent = None
    /\ pure.query[1].out = [decode_us |-> 1 - pure.query[1].m.t_received]

\* C12: every record_attempt appends one row, the latencies of the metrics
\* it was given, leaves the rows before it as they were, adds one to
\* total_attempts and one to successful_liquidations if success was true,
\* to failed_liquidations if not; so total_attempts is always the sum of
\* the two and the number of rows.
C12_RecordAppendsOneRow ==
    /\ [](pure.op = "metrics" =>
            /\ pure.agg.total_attempts =
                   pure.agg.successful_liquidations + pure.agg.failed_liquidations
            /\ pure.agg.total_attempts = Len(pure.agg.latencies))
    /\ [][(pure.op = "metrics" /\ pure.agg' # pure.agg) =>
            LET old == pure.agg
                new == pure.agg'
                given == pure.last'[1]
                s == IF given.success THEN 1 ELSE 0
            IN  /\ new.latencies =
                       Append(old.latencies, get_all_latencies(given.metrics))
                /\ new.total_attempts = old.total_attempts + 1
                /\ new.successful_liquidations = old.successful_liquidations + s
                /\ new.failed_liquidations = old.failed_liquidations + (1 - s)]_vars

\* two attempts are recorded, the first a success and the second a failure
C12_Witness ==
    /\ pure.op = "metrics"
    /\ Len(pure.agg.latencies) = 2
    /\ pure.agg.successful_liquidations = 1
    /\ pure.agg.failed_liquidations = 1
    /\ pure.last # None /\ ~pure.last[1].success

\* the rows of the aggregate that hold the metric of the query
RowsWith(name) ==
    {i \in 1..Len(pure.agg.latencies) : name \in DOMAIN pure.agg.latencies[i]}

\* how many of these rows hold a value for which Test is true
CountWith(name, Test(_)) ==
    Cardinality({i \in RowsWith(name) : Test(pure.agg.latencies[i][name])})

\* C13: with n > 0 values present for the metric, percentile(metric, p) is
\* the element at zero-based index min(floor(p / 100 * n), n - 1) of their
\* ascending sort: at most that many values are smaller than it, and more
\* than that many are not greater.
C13_PercentileIsRankedElement ==
    (Asked("percentile") /\ RowsWith(pure.query[1].name) # {}) =>
        LET name == pure.query[1].name
            n == Cardinality(RowsWith(name))
            index == Min((pure.query[1].pct * n) \div 100, n - 1)
            out == pure.query[1].out
        IN  /\ out # None
            /\ CountWith(name, LAMBDA v : v < out[1]) <= index
            /\ index < CountWith(name, LAMBDA v : v <= out[1])

\* C14: with values present for the metric, percentile(metric, 100.0) is
\* the greatest of them and percentile(metric, 0.0) the least.
C14_PercentileEnds ==
    (Asked("percentile") /\ RowsWith(pure.query[1].name) # {}) =>
        LET name == pure.query[1].name
            out == pure.query[1].out
            values == {pure.agg.latencies[i][name] : i \in RowsWith(name)}
        IN  /\ pure.query[1].pct = 100 =>
                   (out # None /\ out[1] \in values /\ \A v \in values : v <= out[1])
            /\ pure.query[1].pct = 0 =>
                   (out # None /\ out[1] \in values /\ \A v \in values : out[1] <= v)

\* percentile 100 of the decode latencies 2 and 1, recorded in that order, is 2
C14_Witness ==
    /\ Asked("percentile")
    /\ pure.query[1].name = "decode_us" /\ pure.query[1].pct = 100
    /\ Len(pure.agg.latencies) = 2
    /\ pure.agg.latencies[1] = [decode_us |-> 2]
    /\ pure.agg.latencies[2] = [decode_us |-> 1]
    /\ pure.query[1].out = Some(2)

\* C15: mean and percentile return None exactly when no recorded row holds
\* the metric, no row at all included; otherwise mean is the sum of the
\* values present divided by their number, which is not zero.
C15_NoneIffNoValues ==
    (Asked("mean") \/ Asked("percentile")) =>
        LET name == pure.query[1].name
            rows == pure.agg.latencies
            out == pure.query[1].out
            Total[k \in 0..Len(rows)] ==
                IF k = 0 THEN 0
                ELSE Total[k - 1] + (IF k \in RowsWith(name) THEN rows[k][name] ELSE 0)
        IN  /\ (out = None) <=> (RowsWith(name) = {})
            /\ (Asked("mean") /\ out # None) =>
                   /\ out[1].count = Cardinality(RowsWith(name))
                   /\ out[1].count > 0
                   /\ out[1].sum = Total[Len(rows)]

\* the mean of decode_us over two rows of which only one holds it
C15_Witness ==
    /\ Asked("mean")
    /\ pure.query[1].name = "decode_us"
    /\ Len(pure.agg.latencies) = 2
    /\ Cardinality(RowsWith("decode_us")) = 1
    /\ pure.query[1].out # None
    /\ pure.query[1].out[1].count = 1
    /\ pure.query[1].out[1].sum = 2

----------------------------------------------------------------------------
(* Properties of the stream: producer, channel and consumer.               *)

\* the nonces of the events the channel buffers, oldest first
Buffered == [i \in 1..Len(chan.buffer) |-> chan.buffer[i].nonce]

\* C16: the consumer takes the events in the order they were sent, none
\* skipped, doubled or out of turn; it takes one only when the one before
\* it has been processed to the end, simulation and recording included;
\* and when the run returns every event sent has been taken once.
C16_InOrderOneAtATime ==
    /\ [](/\ hist.sent = hist.taken \o Buffered
          /\ Len(hist.taken) = run.processed
          /\ call.pc # "idle" => call.tx.nonce = hist.taken[Len(hist.taken)]
          /\ run.pc = "done" => hist.taken = hist.sent)
    /\ [][Len(hist.taken') > Len(hist.taken) =>
            /\ run.pc = "recv" /\ call = IdleCall /\ run.signal = None
            /\ hist.taken' = SubSeq(hist.sent, 1, Len(hist.taken) + 1)
            /\ call'.tx.nonce = hist.sent[Len(hist.taken) + 1]]_vars

\* the second event is being processed while the third waits in the buffer
C16_Witness ==
    /\ hist.taken = <<0, 1>>
    /\ Buffered = <<2>>
    /\ call.pc = "lookup" /\ call.tx.nonce = 1

\* C17: the channel never buffers more than its capacity; while it is full
\* no send completes and the buffer changes only by the consumer taking its
\* oldest event, so that nothing sent is dropped or overwritten and the
\* producer goes on only after the consumer has taken an event.
C17_BoundedChannel ==
    /\ [](/\ Len(chan.buffer) <= ChannelCapacity
          /\ hist.sent = hist.taken \o Buffered)
    /\ [][Len(chan.buffer) = ChannelCapacity =>
            /\ producer.i' = producer.i
            /\ hist.sent' = hist.sent
            /\ \/ chan.buffer' = chan.buffer
               \/ /\ chan.buffer' = Tail(chan.buffer)
                  /\ hist.taken' = Append(hist.taken, chan.buffer[1].nonce)]_vars

\* the buffer is full and the producer has an event more to send
C17_Witness ==
    /\ Len(chan.buffer) = ChannelCapacity
    /\ chan.receiver
    /\ producer.pc = "loop"
    /\ producer.i < producer.num_transactions

\* the run has returned normally with every event sent, taken and processed
BacktestDone ==
    /\ run.pc = "done"
    /\ producer.pc = "exited"
    /\ chan.buffer = <<>>
    /\ Len(hist.sent) = run.num
    /\ hist.taken = hist.sent
    /\ run.processed = run.num

\* C18: under fair scheduling, every lookup returning, run_backtest(N)
\* terminates: the producer sends N events and closes the channel, the
\* consumer drains the buffer before it sees the end of the stream, and at
\* the return exactly N events have been processed.
C18_BacktestTerminates ==
    (run.mode = "backtest" /\ run.pc = "recv") ~> BacktestDone

\* what does hold of termination: a run returns as C18 says unless
\* simulate_liquidation panics
BacktestTerminatesUnlessPanic ==
    (run.mode = "backtest" /\ run.pc = "recv")
        ~> (BacktestDone \/ run.pc = "panicked")

\* C19: the detector returns at most one Signal for an event, so that the
\* Signals returned and the events without one add up to the events
\* processed; and at the end of a backtest over N events total_attempts
\* plus the number of events without a Signal is N.
C19_AttemptsPlusNoSignal ==
    /\ hist.emitted + hist.nosignal <= run.processed
    /\ run.processed <= hist.emitted + hist.nosignal + 1
    /\ run.pc \in {"recv", "join", "done"} =>
           hist.emitted + hist.nosignal = run.processed
    /\ (run.pc = "done" /\ producer.pc = "exited") =>
           run.aggregate_metrics.total_attempts + hist.nosignal = run.num

\* a backtest over three events returns with two attempts recorded, one of
\* them failed, and one event without a Signal
C19_Witness ==
    /\ run.pc = "done" /\ producer.pc = "exited"
    /\ run.num = 3
    /\ run.aggregate_metrics.total_attempts = 2
    /\ run.aggregate_metrics.failed_liquidations = 1
    /\ hist.nosignal = 1

\* C20: every Signal the detector returns is followed by one record_attempt,
\* and by one only, before the next event is taken and before the run
\* returns, whatever the simulation comes to; none is left unrecorded.
C20_SignalIsRecorded ==
    /\ [](/\ run.aggregate_metrics.total_attempts <= hist.emitted
          /\ hist.emitted <= run.aggregate_metrics.total_attempts + 1
          /\ run.pc \in {"recv", "join", "done"} =>
                 run.aggregate_metrics.total_attempts = hist.emitted)
    /\ (hist.emitted > run.aggregate_metrics.total_attempts)
           ~> (hist.emitted = run.aggregate_metrics.total_attempts)

\* what does hold of recording: no event is taken and no run returns with
\* a Signal unrecorded or recorded twice
SignalRecordedBeforeNext ==
    /\ run.aggregate_metrics.total_attempts <= hist.emitted
    /\ hist.emitted <= run.aggregate_metrics.total_attempts + 1
    /\ run.pc \in {"recv", "join", "done"} =>
           run.aggregate_metrics.total_attempts = hist.emitted

----------------------------------------------------------------------------
(* Properties of the pipeline when an event fails.                         *)

\* the lookup of the event in flight has failed, or the detector has
\* returned Err for it
FailedDetection ==
    /\ run.mode = "backtest" /\ run.pc = "detect" /\ call.pc = "returned"
    /\ (call.refresh = "err" \/ call.result.error)

\* the event in flight has failed in the detector or in the simulation
FailedEvent == FailedDetection \/ (run.mode = "backtest" /\ run.pc = "panicked")

\* no step changes the snapshot of an account other than the one the event
\* in flight is about
OtherAccountsUntouched ==
    [][\A a \in DOMAIN positions :
          a # call.user => (a \in DOMAIN positions' /\ positions'[a] = positions[a])]_vars

\* C21: a failure on one event, in the lookup, the detection or the
\* simulation, does not stop the pipeline: the consumer goes on to take and
\* process every later event of the stream, and the snapshots of the other
\* accounts are as they were.
C21_FailureDoesNotStop ==
    /\ OtherAccountsUntouched
    /\ FailedEvent ~> BacktestDone

\* what does hold: after a failed lookup the consumer is back at rx.recv(),
\* the store as it was when the event was received, and the run goes on to
\* its end unless a simulation panics
LookupFailureGoesOn ==
    /\ OtherAccountsUntouched
    /\ [](FailedDetection => (positions = storeAtRecv /\ call.result = Ok(None)))
    /\ FailedDetection ~> (run.pc = "recv" /\ call = IdleCall)
    /\ FailedDetection ~> (BacktestDone \/ run.pc = "panicked")

----------------------------------------------------------------------------
(* Properties of the store under concurrent callers.                       *)

\* the tasks that hold the write guard, and those that hold a read guard:
\* between the return of write() or read() and the drop of the guard
Writing == {t \in Tasks : tasks[t].pc \in {"writing", "written"}}
Reading == {t \in Tasks : tasks[t].pc \in {"reading", "read_done"}}

\* C22: in every interleaving of process_transaction, scan_all_positions,
\* get_position_count and clear_positions, a task inside the store as a
\* writer (the insert of update_position, clear_positions) is alone there:
\* no other writer and no reader (check_liquidation, scan_all_positions,
\* get_position_count) is inside with it, and the store changes only under
\* the write guard.  Readers may be inside together.
C22_ReaderWriterExclusion ==
    /\ [](/\ Cardinality(Writing) <= 1
          /\ Writing # {} => Reading = {}
          /\ Writing = lock.writer /\ Reading = lock.readers)
    /\ [][positions' # positions =>
            (Cardinality(Writing) = 1 /\ Reading = {} /\ Writing \subseteq Writing')]_vars

\* two tasks read the store together while the third awaits the write guard
C22_Witness ==
    /\ Cardinality(Reading) = 2
    /\ \E t \in Tasks : tasks[t].pc = "write_wait"
    /\ \E t \in Reading : tasks[t].op = "scan_all_positions"
    /\ \E t \in Reading : tasks[t].op = "process_transaction"

\* C24: scan_all_positions returns one Signal for each account that has
\* health_factor < 100 and debt > 0 in the store as it was when the scan
\* took its read guard, and none for any other account; each Signal holds
\* the collateral, debt and health factor stored for its account; and from
\* the guard to the return the store is that one snapshot: the scan does
\* not change it, and nobody else does.
C24_ScanIsOneSnapshot ==
    \A t \in Tasks :
        (tasks[t].op = "scan_all_positions" /\ t \in Reading) =>
            /\ positions = tasks[t].seen
            /\ tasks[t].pc = "read_done" =>
                  LET signals == tasks[t].result[1]
                      store == tasks[t].seen
                      For(a) == {i \in DOMAIN signals : signals[i].user = a}
                  IN  /\ \A a \in DOMAIN store :
                             Cardinality(For(a)) =
                                 IF store[a].health_factor < 100 /\ store[a].debt > 0
                                 THEN 1 ELSE 0
                      /\ \A i \in DOMAIN signals :
                             /\ signals[i].user \in DOMAIN store
                             /\ Triple(signals[i]) = Triple(store[signals[i].user])

\* a scan of two accounts, one liquidatable and one not, has its one Signal
\* while another task waits to write
C24_Witness ==
    \E t \in Tasks :
        /\ tasks[t].op = "scan_all_positions" /\ tasks[t].pc = "read_done"
        /\ Cardinality(DOMAIN tasks[t].seen) = 2
        /\ Len(tasks[t].result[1]) = 1
        /\ \E w \in Tasks : tasks[w].pc = "write_wait"

----------------------------------------------------------------------------
(* Properties of the accounts tracked and of the Signals' checkpoints.     *)

\* C23: the store holds one snapshot per tracked account.  An account
\* becomes tracked only by a refresh of it that succeeds, its entry is from
\* then on only replaced, whole, by a later refresh of it, and entries go
\* only by clear_positions, which takes them all; get_position_count is the
\* number of distinct accounts refreshed with success since the last clear.
C23_TrackedByRefreshUntilClear ==
    /\ [](/\ DOMAIN positions = DOMAIN committed
          /\ get_position_count(positions) = Cardinality(DOMAIN committed))
    /\ [][/\ \A a \in DOMAIN positions' \ DOMAIN positions :
                a = call.user /\ call.pc = "write" /\ call'.refresh = "ok"
          /\ \A a \in DOMAIN positions \cap DOMAIN positions' :
                positions'[a] # positions[a] =>
                    /\ a = call.user /\ call.pc = "write" /\ call'.refresh = "ok"
                    /\ Triple(positions'[a]) = call.fetched[1]
          /\ ~(DOMAIN positions \subseteq DOMAIN positions') =>
                (positions' = <<>> /\ Quiet /\ call' = call /\ committed' = <<>>)]_vars

\* both accounts are tracked, and an event has replaced the snapshot of one
\* of them with different values
C23_Witness ==
    /\ get_position_count(positions) = 2
    /\ call.pc = "returned" /\ call.refresh = "ok"
    /\ call.user \in DOMAIN storeAtRecv
    /\ DOMAIN storeAtRecv = DOMAIN positions
    /\ Triple(storeAtRecv[call.user]) # Triple(positions[call.user])

\* C25: a Signal returned by process_transaction or by scan_all_positions
\* has its signal checkpoint set, to a time not before the refresh that
\* stored the snapshot it reports; one returned by process_transaction has
\* decoded set too, and simulated, constructed and sent not set.
C25_SignalsAreMarked ==
    /\ call.result.signal # None =>
          LET m == call.result.signal[1].metrics
          IN  /\ m.t_signal # None
              /\ m.t_signal[1] >= refreshedAt[call.result.signal[1].user]
              /\ m.t_decoded # None
              /\ m.t_simulated = None /\ m.t_constructed = None /\ m.t_sent = None
    /\ \A i \in DOMAIN scanned :
          /\ scanned[i].metrics.t_signal # None
          /\ scanned[i].metrics.t_signal[1] >= refreshedAt[scanned[i].user]

\* process_transaction has returned a Signal marked one tick after the
\* refresh it reports
C25_Witness ==
    /\ call.pc = "returned" /\ call.result.signal # None
    /\ call.result.signal[1].metrics.t_decoded = Some(0)
    /\ refreshedAt[call.user] = 0
    /\ call.result.signal[1].metrics.t_signal = Some(1)

----------------------------------------------------------------------------
(* Properties of the simulator.                                            *)

\* simulate_liquidation has returned Ok(result)
SimulationReturned == pure.op = "simulate" /\ pure.pc = "returned"

\* the gas lookups answered, or failed, such that 300,000 gas at 50 gwei is
\* what the simulation uses
NormalGas ==
    /\ pure.estimate # None /\ pure.price # None
    /\ GasEstimate(pure.estimate[1]) = ToBits(300000)
    /\ GasPrice(pure.price[1]) = Mul(ToBits(50), E9)

\* C26: every result simulate_liquidation returns has expected_profit_usd =
\* the USD value of collateral_to_seize - the USD value of debt_to_cover - the
\* gas cost in USD, and has profitable = true exactly when expected_profit_usd
\* >= min_profit_threshold, equality counting as profitable.
C26_ProfitableIffAtLeastThreshold ==
    SimulationReturned =>
        LET r == pure.result[1]
            collateral_usd == f64_times(InUnits(r.collateral_to_seize), Whole(2000))
            debt_usd == InUnits(r.debt_to_cover)
            expected == f64_sub(f64_sub(collateral_usd, debt_usd),
                                r.estimated_gas_cost_usd)
            margin == f64_sub(expected, pure.min_profit_threshold)
        IN  /\ r.expected_profit_usd = expected
            /\ r.profitable <=> (margin.mant = <<>> \/ ~margin.neg)

\* a result whose expected profit equals the threshold, and is profitable
C26_Witness ==
    /\ SimulationReturned
    /\ pure.result[1].expected_profit_usd = pure.min_profit_threshold
    /\ pure.result[1].profitable

\* C27: a failed gas-estimate lookup or gas-price lookup never makes
\* simulate_liquidation return an error: a call that returns returns a result,
\* whose estimated_gas is 300,000 when the estimate failed and whose gas cost
\* is that of estimated_gas at 50 gwei when the price lookup failed; once a
\* lookup has failed the call goes on with the default.
C27_LookupFailureFallsBack ==
    /\ SimulationReturned => pure.result # None
    /\ (pure.op = "simulate" /\ pure.estimate = Some(GasErr)) =>
          /\ pure.gas_estimate = ToBits(300000)
          /\ pure.pc \in {"gas_price", "profit", "returned", "panicked"}
    /\ (SimulationReturned /\ pure.estimate = Some(GasErr)) =>
          pure.result[1].estimated_gas = ToBits(300000)
    /\ (SimulationReturned /\ pure.price = Some(GasErr)) =>
          pure.result[1].estimated_gas_cost_usd =
              f64_times(InUnits(Mul(pure.result[1].estimated_gas,
                                    Mul(ToBits(50), E9))), Whole(2000))

\* both lookups failed and the call returned a result
C27_Witness ==
    /\ SimulationReturned
    /\ pure.estimate = Some(GasErr) /\ pure.price = Some(GasErr)
    /\ pure.result # None

\* the first statements of simulate_liquidation are behind the call
Seized ==
    pure.op = "simulate" /\ pure.pc \in {"estimate_gas", "gas_price", "profit", "returned"}

\* the part of C28 that is not about the price: the full debt is targeted, by
\* optimize_debt_amount too, and collateral_to_seize = collateral_value * 110 / 100
FullDebtWithBonus ==
    /\ pure.op = "simulate" /\ pure.optimized # None =>
          pure.optimized[1] = pure.signal.debt
    /\ Seized =>
          /\ pure.debt_to_cover = pure.signal.debt
          /\ pure.collateral_to_seize =
                 DivSmall(MulSmall(pure.collateral_value, 110), 100).q
    /\ SimulationReturned =>
          /\ pure.result[1].debt_to_cover = pure.signal.debt
          /\ pure.result[1].collateral_to_seize = pure.collateral_to_seize

\* C28: simulate_liquidation targets the full debt (debt_to_cover =
\* signal.debt, and optimize_debt_amount returns signal.debt), and computes,
\* with truncating integer division, collateral_value = debt_to_cover / 2000
\* and collateral_to_seize = collateral_value * 110 / 100.
C28_FullDebtSeizedAtPrice ==
    /\ FullDebtWithBonus
    /\ Seized => pure.collateral_value = DivSmall(pure.debt_to_cover, 2000).q

\* the signal {collateral = 5e18, debt = 8000e18, health_factor = 80}, the
\* threshold 10
ScenarioSignal ==
    /\ pure.op = "simulate"
    /\ pure.signal.collateral = Mul(ToBits(5), E18)
    /\ pure.signal.debt = Mul(ToBits(8000), E18)
    /\ pure.signal.health_factor = ToBits(80)
    /\ pure.min_profit_threshold = Whole(10)

\* C29: for the signal {collateral = 5e18, debt = 8000e18, health_factor =
\* 80}, the threshold 10 and 300,000 gas at 50 gwei, what simulate_liquidation
\* returns is profitable, with an expected profit above 0 that equals 800
\* minus the gas cost in USD.
C29_ScenarioProfit ==
    (ScenarioSignal /\ NormalGas /\ SimulationReturned) =>
        LET r == pure.result[1]
        IN  /\ r.profitable
            /\ r.expected_profit_usd.mant # <<>> /\ ~r.expected_profit_usd.neg
            /\ r.expected_profit_usd = f64_sub(Whole(800), r.estimated_gas_cost_usd)

\* quick_profitability_check returned true
QuickSaysYes ==
    /\ pure.op = "simulate" /\ pure.quick # None
    /\ ~pure.quick[1].panicked
    /\ pure.quick[1].value

\* C30: whenever quick_profitability_check returns true for a signal, what
\* simulate_liquidation returns for it with 300,000 gas at 50 gwei is
\* profitable.
C30_QuickCheckIsConservative ==
    (QuickSaysYes /\ NormalGas /\ SimulationReturned) => pure.result[1].profitable

----------------------------------------------------------------------------
(* Properties of the pipeline as a whole.                                  *)

\* C31: with the one consumer of the harness, which takes an event only when
\* the one before is done, the snapshot stored for an account is what
\* get_position returned for the most recent event of that account whose
\* lookup succeeded, except while that very value waits to be inserted: no
\* value fetched for an earlier event stands in the place of a later one.
C31_LatestLookupIsStored ==
    \A u \in DOMAIN positions :
        \/ call.pc = "write" /\ call.user = u
        \/ /\ u \in DOMAIN hist.fetched
           /\ Triple(positions[u]) = hist.fetched[u]

\* an event of the harness whose lookup returned something else than what
\* the store held for the account when the event was taken, and is stored
C31_Witness ==
    /\ run.mode = "backtest"
    /\ call.pc = "returned" /\ call.refresh = "ok"
    /\ call.user \in DOMAIN storeAtRecv
    /\ Triple(storeAtRecv[call.user]) # call.fetched[1]
    /\ call.user \in DOMAIN positions
    /\ Triple(positions[call.user]) = call.fetched[1]

\* a process_transaction call of a task holds the clone of the entry that
\* check_liquidation read for its account
TaskHasRead(t) ==
    /\ tasks[t].op = "process_transaction" /\ tasks[t].pc = "read_done"
    /\ tasks[t].result[1] # None

\* C32: when process_transaction calls for the same account run concurrently
\* on one detector, the entry each call reads in check_liquidation, on which
\* it decides and from which it builds its Signal, holds the collateral, debt
\* and health_factor that the call's own refresh wrote.
C32_CallReadsItsOwnRefresh ==
    \A t \in DOMAIN tasks :
        TaskHasRead(t) => Triple(tasks[t].result[1][1]) = tasks[t].fetched[1]

\* the step of a harness loop from the await of simulate_liquidation to the
\* end of record_attempt
Records == run.pc = "simulate" /\ run'.pc = "recorded"

\* C33: in both harness modes a step records an attempt only after a
\* simulation, and records one: as a success exactly when the simulation
\* returned profitable = true, as one failure when it returned an unprofitable
\* result; the arm for a simulation error records one failure too.
C33_SuccessIffProfitable ==
    /\ [][(run'.aggregate_metrics # run.aggregate_metrics /\ run' # NoRun)
             => Records]_vars
    /\ [][Records =>
            LET old == run.aggregate_metrics
                new == run'.aggregate_metrics
                result == run'.sim_result[1]
                m == IF run.mode = "backtest" THEN run.signal[1].metrics
                     ELSE run.metrics[1]
                failed == AfterSimulation(m, SimErr, clock, clock, clock)
            IN  /\ new.total_attempts = old.total_attempts + 1
                /\ (result.ok /\ result.profitable) =>
                       /\ new.successful_liquidations = old.successful_liquidations + 1
                       /\ new.failed_liquidations = old.failed_liquidations
                /\ ~(result.ok /\ result.profitable) =>
                       /\ new.successful_liquidations = old.successful_liquidations
                       /\ new.failed_liquidations = old.failed_liquidations + 1
                /\ ~failed.success
                /\ record_attempt(old, failed.metrics, failed.success).failed_liquidations
                       = old.failed_liquidations + 1]_vars

\* a run has recorded a success, and now a failure for an unprofitable result
C33_Witness ==
    /\ run.pc = "recorded"
    /\ run.sim_result = Some(SimOk(FALSE))
    /\ run.aggregate_metrics.successful_liquidations = 1
    /\ run.aggregate_metrics.failed_liquidations = 1

\* the rows a run has recorded
Rows == run.aggregate_metrics.latencies

\* C34: in every row a harness records, end_to_end_us and construction_us
\* are present exactly when the attempt was recorded as a success, decode_us
\* and signal_detection_us are always present, and simulation_us is present
\* exactly when the simulation returned a result.
C34_RowsByOutcome ==
    /\ [](\A i \in DOMAIN Rows :
            /\ {"decode_us", "signal_detection_us"} \subseteq DOMAIN Rows[i]
            /\ "end_to_end_us" \in DOMAIN Rows[i] <=> "construction_us" \in DOMAIN Rows[i])
    /\ [](Cardinality({i \in DOMAIN Rows : "end_to_end_us" \in DOMAIN Rows[i]})
            = run.aggregate_metrics.successful_liquidations)
    /\ [][Records =>
            LET old == run.aggregate_metrics
                new == run'.aggregate_metrics
                row == new.latencies[Len(new.latencies)]
                success == new.successful_liquidations = old.successful_liquidations + 1
            IN  /\ Len(new.latencies) = Len(old.latencies) + 1
                /\ "end_to_end_us" \in DOMAIN row <=> success
                /\ "construction_us" \in DOMAIN row <=> success
                /\ "simulation_us" \in DOMAIN row <=> run'.sim_result[1].ok
                /\ LET m == IF run.mode = "backtest" THEN run.signal[1].metrics
                            ELSE run.metrics[1]
                       failed == AfterSimulation(m, SimErr, clock, clock, clock)
                   IN  "simulation_us" \notin DOMAIN get_all_latencies(failed.metrics)]_vars

\* a stress run has recorded two rows: one with all five latencies, one with
\* neither end_to_end_us nor construction_us
C34_Witness ==
    /\ run.mode = "stress" /\ run.pc = "recorded"
    /\ Len(Rows) = 2
    /\ \E i, j \in DOMAIN Rows :
          /\ DOMAIN Rows[i] = {"decode_us", "signal_detection_us", "simulation_us",
                               "construction_us", "end_to_end_us"}
          /\ DOMAIN Rows[j] = {"decode_us", "signal_detection_us", "simulation_us"}

\* C35: simulate_liquidation returns a result whatever the debt, the gas
\* estimate and the gas price are: no product overflows 256 bits, every value
\* narrowed to 128 bits fits, and the call never panics.
C35_SimulationNeverAborts == pure.op = "simulate" => pure.pc # "panicked"

\* the signals that differ from `signal` in collateral and health_factor at most
Twins(signal) ==
    {[signal EXCEPT !.collateral = c, !.health_factor = h] :
        c \in Collaterals, h \in {ToBits(80), ToBits(99)}}

\* C36: what simulate_liquidation returns is decided by signal.debt and the
\* answers of the gas lookups: for a signal that differs in collateral or
\* health_factor only, the first statements give the same debt_to_cover,
\* collateral_value and collateral_to_seize, or panic alike, and from these
\* and the same gas answers the same result follows.  (That the collateral
\* of the signal is no bound of collateral_to_seize is what the witness shows.)
C36_ResultIgnoresCollateral ==
    /\ (pure.op = "simulate" /\ pure.pc = "estimate_gas") =>
          \A twin \in Twins(pure.signal) :
              Seize(twin, pure.overflow_checks) =
                  [panicked |-> FALSE,
                   debt_to_cover |-> pure.debt_to_cover,
                   collateral_value |-> pure.collateral_value,
                   collateral_to_seize |-> pure.collateral_to_seize]
    /\ (pure.op = "simulate" /\ pure.pc = "panicked" /\ pure.estimate = None) =>
          \A twin \in Twins(pure.signal) :
              Seize(twin, pure.overflow_checks).panicked
    /\ SimulationReturned =>
          \A twin \in Twins(pure.signal) :
              Profit([pure EXCEPT !.signal = twin], pure.min_profit_threshold) =
                  [panicked |-> FALSE, result |-> pure.result[1]]

\* a result whose collateral_to_seize is more than the collateral of the signal
C36_Witness ==
    /\ SimulationReturned
    /\ Less(pure.signal.collateral, pure.result[1].collateral_to_seize)

\* a percentile was asked of an aggregate that holds values of the metric
PercentileAsked ==
    /\ pure.op = "metrics" /\ pure.query # None
    /\ pure.query[1].kind = "percentile"
    /\ pure.query[1].out # None

\* C37: percentile is monotone in p: a percentile returned for p1 is at most
\* the one the same aggregate returns for the same metric and any p2 >= p1,
\* and is one of the values recorded for that metric.
C37_PercentileMonotone ==
    PercentileAsked =>
        LET q == pure.query[1]
            values == PresentValues(pure.agg.latencies, q.name)
        IN  /\ \E i \in DOMAIN values : values[i] = q.out[1]
            /\ \A p2 \in Percents :
                   q.pct <= p2 => q.out[1] <= percentile(pure.agg, q.name, p2)[1]

\* a percentile that is less than the one of a greater p
C37_Witness ==
    /\ PercentileAsked
    /\ \E p2 \in Percents :
          /\ pure.query[1].pct < p2
          /\ pure.query[1].out[1] < percentile(pure.agg, pure.query[1].name, p2)[1]

====
